---- MODULE Spec2Model ----
(***************************************************************************)
(* MiniShell: the in-memory file system of FileSystemManager, Directory,   *)
(* File and Utility/Utils.hpp.                                             *)
(*                                                                         *)
(* Strings are sequences of one-character strings, so that validatePath    *)
(* and split work on characters as the C++ does.  Nodes live in an arena   *)
(* of slots; slot 0 is the root the manager constructs.                    *)
(* A shared_ptr is an index, nullptr is NoNode; a node is destroyed (its   *)
(* slot freed, every weak_ptr to it expired) when no shared_ptr owns it.   *)
(***************************************************************************)
EXTENDS Integers, Sequences, FiniteSets, TLC

\* ------------------------------------------------------------------ bounds
\* Most objects, the root apart, a state of the machine holds.
MaxNodes == 3
\* Longest file content the write actions may produce.
MaxContent == 4

\* ------------------------------------------------------------- characters
SLASH == "/"
DOT == "."
NL == "\n"

Min(a, b) == IF a < b THEN a ELSE b

\* std::string::substr(pos, n) / the operand of compare(pos, n, s): the n
\* characters from 0-based pos, clipped at the end of the string.
substr(s, pos, n) == SubSeq(s, pos + 1, Min(pos + n, Len(s)))

\* path.compare(pos, n, lit) == 0
compare(s, pos, n, lit) == substr(s, pos, n) = lit

\* ------------------------------------------------- FileSystemException.hpp
\* An error is the exception's class followed by the message it is thrown
\* with (without the names the message quotes).
InvalidPathErrors ==
    { "InvalidPathException(Path cannot be empty)",
      "InvalidPathException(part)",
      "InvalidPathException(is not a directory)",
      "InvalidPathException(is not a file)" }

InvalidOperationErrors ==
    { "InvalidOperationException(File cannot contain a directory)",
      "InvalidOperationException(Cannot recursively copy/move a file)",
      "InvalidOperationException(Cannot non-recursively copy/move a directory)",
      "InvalidOperationException(Cannot copy a directory into itself)",
      "InvalidOperationException(Cannot copy the root directory)",
      "InvalidOperationException(Cannot copy a directory into its own subdirectory)",
      "InvalidOperationException(Destination already contains a directory/file with the same name)",
      "InvalidOperationException(Target is not a directory)",
      "InvalidOperationException(Target is not a file)",
      "InvalidOperationException(Directory with name already exists)" }

\* ------------------------------------------------------------ Utils.hpp
ROOT == "ROOT"
CURRENT == "CURRENT"

\* A scan that takes ".." for a parent hop whatever follows it.
RECURSIVE scanPrefix_NoTerminator(_, _, _)
scanPrefix_NoTerminator(path, pos, ups) ==
    IF pos >= Len(path) THEN [pos |-> pos, ups |-> ups]
    ELSE IF compare(path, pos, 2, <<DOT, SLASH>>)
         THEN scanPrefix_NoTerminator(path, pos + 2, ups)
    ELSE IF compare(path, pos, 3, <<DOT, DOT, SLASH>>)
         THEN scanPrefix_NoTerminator(path, pos + 3, ups + 1)
    ELSE IF compare(path, pos, 2, <<DOT, DOT>>)
         THEN scanPrefix_NoTerminator(path, pos + 2, ups + 1)
    ELSE IF /\ compare(path, pos, 1, <<DOT>>)
            /\ (pos + 1 = Len(path) \/ path[pos + 2] = SLASH)
         THEN scanPrefix_NoTerminator(path,
                         IF pos + 1 < Len(path) /\ path[pos + 2] = SLASH
                         THEN pos + 2 ELSE pos + 1,
                         ups)
    ELSE [pos |-> pos, ups |-> ups]

\* The scan loop of validatePath: consumes "./", "../", a final or
\* slash-terminated "..", a final or slash-terminated "."; returns the
\* position where it stops and the number of "..".
RECURSIVE scanPrefix(_, _, _)
scanPrefix(path, pos, ups) ==
    IF pos >= Len(path) THEN [pos |-> pos, ups |-> ups]
    ELSE IF compare(path, pos, 2, <<DOT, SLASH>>)
         THEN scanPrefix(path, pos + 2, ups)
    ELSE IF compare(path, pos, 3, <<DOT, DOT, SLASH>>)
         THEN scanPrefix(path, pos + 3, ups + 1)
    ELSE IF /\ compare(path, pos, 2, <<DOT, DOT>>)
            /\ (pos + 2 = Len(path) \/ path[pos + 3] = SLASH)
         THEN scanPrefix(path,
                         IF pos + 2 < Len(path) /\ path[pos + 3] = SLASH
                         THEN pos + 3 ELSE pos + 2,
                         ups + 1)
    ELSE IF /\ compare(path, pos, 1, <<DOT>>)
            /\ (pos + 1 = Len(path) \/ path[pos + 2] = SLASH)
         THEN scanPrefix(path,
                         IF pos + 1 < Len(path) /\ path[pos + 2] = SLASH
                         THEN pos + 2 ELSE pos + 1,
                         ups)
    ELSE [pos |-> pos, ups |-> ups]

\* utility::validatePath: [err, type, ups, rest].
validatePath(path) ==
    IF path = <<>>
    THEN [err |-> "InvalidPathException(Path cannot be empty)", type |-> "INVALID",
          ups |-> 0, rest |-> <<>>]
    ELSE LET start == IF path[1] = SLASH THEN 1 ELSE 0
             sc == scanPrefix(path, start, 0)
         IN [err |-> "ok",
             type |-> IF path[1] = SLASH THEN ROOT ELSE CURRENT,
             ups |-> sc.ups,
             rest |-> IF sc.pos < Len(path)
                      THEN SubSeq(path, sc.pos + 1, Len(path)) ELSE <<>>]

\* utility::split: the non-empty pieces between '/' characters.
RECURSIVE splitFrom(_, _, _)
splitFrom(path, i, cur) ==
    IF i > Len(path)
    THEN IF cur = <<>> THEN <<>> ELSE <<cur>>
    ELSE IF path[i] = SLASH
         THEN (IF cur = <<>> THEN <<>> ELSE <<cur>>) \o splitFrom(path, i + 1, <<>>)
         ELSE splitFrom(path, i + 1, Append(cur, path[i]))

split(path) == splitFrom(path, 1, <<>>)

\* ------------------------------------------------------------ node model
\* FileSystemManager::root: the Directory("") made by the constructor.
Root == 0
\* nullptr, and what an empty or expired weak_ptr locks to.
NoNode == -1

\* The arena has room for what one more call creates in a tree of MaxNodes.
Ids == 0..(MaxNodes + 2)

EmptyMap == [k \in {} |-> NoNode]

\* A slot holding no object.
FreeNode ==
    [kind |-> "free", name |-> <<>>, parent |-> NoNode,
     children |-> EmptyMap, content |-> <<>>]

\* Directory::Directory(name): no parent, no children.
newDirectory(name) ==
    [kind |-> "dir", name |-> name, parent |-> NoNode,
     children |-> EmptyMap, content |-> <<>>]

\* File::File(name, content).
newFile(name, content) ==
    [kind |-> "file", name |-> name, parent |-> NoNode,
     children |-> EmptyMap, content |-> content]

isDirectory(fs, n) == fs[n].kind = "dir"

\* children.contains(name) / children.find(name) != end()
contains(fs, d, name) == name \in DOMAIN fs[d].children

\* children[name] = child, on a key that may be present (it is overwritten).
mapPut(ch, name, child) ==
    [k \in DOMAIN ch \cup {name} |-> IF k = name THEN child ELSE ch[k]]

\* children.erase(name)
mapErase(ch, name) == [k \in DOMAIN ch \ {name} |-> ch[k]]

Range(f) == {f[k] : k \in DOMAIN f}

\* FileSystemNode::setParent
setParent(fs, n, p) == [fs EXCEPT ![n].parent = p]

\* dir->children[name] = child
setChild(fs, d, name, child) ==
    [fs EXCEPT ![d].children = mapPut(@, name, child)]

\* Directory::removeChild
removeChild(fs, d, name) ==
    [fs EXCEPT ![d].children = mapErase(@, name)]

\* The objects some shared_ptr keeps alive: the manager's root and cwd and
\* everything held, transitively, in a live directory's children map.
RECURSIVE closure(_, _, _)
closure(fs, frontier, seen) ==
    IF frontier = {} THEN seen
    ELSE LET now == seen \cup frontier
             next == UNION {Range(fs[i].children) : i \in frontier}
         IN closure(fs, next \ now, now)

Owned(fs, c) == closure(fs, {Root} \cup (IF c = NoNode THEN {} ELSE {c}), {})

\* The end of an operation: every object no shared_ptr owns is destroyed, and
\* a weak_ptr to a destroyed object locks to nullptr from then on.
release(fs, c) ==
    LET live == Owned(fs, c)
    IN [i \in Ids |->
          IF i \notin live THEN FreeNode
          ELSE IF fs[i].parent # NoNode /\ fs[i].parent \notin live
               THEN [fs[i] EXCEPT !.parent = NoNode]
               ELSE fs[i]]

FreeIds(fs) == {i \in Ids : fs[i].kind = "free"}

\* std::make_shared: the model takes the lowest free slot.
alloc(fs) == CHOOSE i \in FreeIds(fs) : \A j \in FreeIds(fs) : i <= j

\* Some order of iteration over an unordered_map's keys.
RECURSIVE keysOf(_)
keysOf(S) ==
    IF S = {} THEN <<>>
    ELSE LET k == CHOOSE x \in S : TRUE IN <<k>> \o keysOf(S \ {k})

\* ------------------------------------------------------------ navigation
OK == "ok"
\* A dereference of nullptr: the process is killed by the access.
CRASH == "crash"
\* Not an outcome of the program: the arena of the model is full.
BOUND == "bound"

\* An ascent that does not stop at the root.
RECURSIVE ascend_PastRoot(_, _, _)
ascend_PastRoot(fs, node, ups) ==
    IF ups = 0 THEN [err |-> OK, node |-> node]
    ELSE IF node = NoNode THEN [err |-> CRASH, node |-> NoNode]
    ELSE ascend_PastRoot(fs, fs[node].parent, ups - 1)

\* while (node != root && ups--) node = node->parent.lock();
RECURSIVE ascend(_, _, _)
ascend(fs, node, ups) ==
    IF node = Root \/ ups = 0 THEN [err |-> OK, node |-> node]
    ELSE IF node = NoNode THEN [err |-> CRASH, node |-> NoNode]
    ELSE ascend(fs, fs[node].parent, ups - 1)

\* The node a resolution starts from, after the prefix of the path.
startNode(fs, pp, start) ==
    IF pp.type = ROOT THEN [err |-> OK, node |-> Root]
    ELSE ascend(fs, start, pp.ups)

\* A descent that reports a file on the way as a missing directory.
RECURSIVE navigateParts_OneError(_, _, _)
navigateParts_OneError(fs, node, parts) ==
    IF parts = <<>> THEN [err |-> OK, node |-> node]
    ELSE IF node = NoNode THEN [err |-> CRASH, node |-> NoNode]
    ELSE IF ~contains(fs, node, Head(parts))
         THEN [err |-> "DirectoryDoesNotExist", node |-> NoNode]
    ELSE IF ~isDirectory(fs, fs[node].children[Head(parts)])
         THEN [err |-> "DirectoryDoesNotExist", node |-> NoNode]
    ELSE navigateParts_OneError(fs, fs[node].children[Head(parts)], Tail(parts))

\* The descent of navigateToDirectory over the parts of the rest.
RECURSIVE navigateParts(_, _, _)
navigateParts(fs, node, parts) ==
    IF parts = <<>> THEN [err |-> OK, node |-> node]
    ELSE IF node = NoNode THEN [err |-> CRASH, node |-> NoNode]
    ELSE IF ~contains(fs, node, Head(parts))
         THEN [err |-> "DirectoryDoesNotExist", node |-> NoNode]
    ELSE IF ~isDirectory(fs, fs[node].children[Head(parts)])
         THEN [err |-> "InvalidPathException(is not a directory)", node |-> NoNode]
    ELSE navigateParts(fs, fs[node].children[Head(parts)], Tail(parts))

\* FileSystemManager::navigateToDirectory
navigateToDirectory(fs, path, start) ==
    LET pp == validatePath(path)
    IN IF pp.err # OK THEN [err |-> pp.err, node |-> NoNode]
       ELSE LET st == startNode(fs, pp, start)
            IN IF st.err # OK THEN st
               ELSE navigateParts(fs, st.node, split(pp.rest))

\* A descent that takes the directory it has reached as the destination when
\* the next part is absent.
RECURSIVE destinationParts_StopAtMissing(_, _, _)
destinationParts_StopAtMissing(fs, node, parts) ==
    IF parts = <<>> THEN [err |-> OK, node |-> node]
    ELSE IF node = NoNode THEN [err |-> CRASH, node |-> NoNode]
    ELSE IF ~contains(fs, node, Head(parts))
         THEN [err |-> OK, node |-> node]
    ELSE IF ~isDirectory(fs, fs[node].children[Head(parts)])
         THEN [err |-> "InvalidPathException(is not a directory)", node |-> NoNode]
    ELSE destinationParts_StopAtMissing(fs, fs[node].children[Head(parts)], Tail(parts))

\* The descent of resolveDestination.
RECURSIVE destinationParts(_, _, _)
destinationParts(fs, node, parts) ==
    IF parts = <<>> THEN [err |-> OK, node |-> node]
    ELSE IF node = NoNode THEN [err |-> CRASH, node |-> NoNode]
    ELSE IF ~contains(fs, node, Head(parts))
         THEN [err |-> "InvalidPathException(part)", node |-> NoNode]
    ELSE IF ~isDirectory(fs, fs[node].children[Head(parts)])
         THEN [err |-> "InvalidPathException(is not a directory)", node |-> NoNode]
    ELSE destinationParts(fs, fs[node].children[Head(parts)], Tail(parts))

\* FileSystemManager::resolveDestination
resolveDestination(fs, c, dstPath) ==
    LET pp == validatePath(dstPath)
    IN IF pp.err # OK THEN [err |-> pp.err, node |-> NoNode]
       ELSE LET st == startNode(fs, pp, c)
            IN IF st.err # OK THEN st
               ELSE destinationParts(fs, st.node, split(pp.rest))

\* The descent of resolveSource: [err, node, fileName]; fileName is empty
\* unless the last part names a file of node.
RECURSIVE sourceParts(_, _, _)
sourceParts(fs, node, parts) ==
    IF parts = <<>> THEN [err |-> OK, node |-> node, fileName |-> <<>>]
    ELSE IF node = NoNode THEN [err |-> CRASH, node |-> NoNode, fileName |-> <<>>]
    ELSE IF ~contains(fs, node, Head(parts))
         THEN [err |-> "InvalidPathException(part)", node |-> NoNode, fileName |-> <<>>]
    ELSE IF ~isDirectory(fs, fs[node].children[Head(parts)])
         THEN IF Tail(parts) # <<>>
              THEN [err |-> "InvalidOperationException(File cannot contain a directory)",
                    node |-> NoNode, fileName |-> <<>>]
              ELSE [err |-> OK, node |-> node, fileName |-> Head(parts)]
    ELSE sourceParts(fs, fs[node].children[Head(parts)], Tail(parts))

\* A resolveSource that does not hold the flag against the kind of the source.
resolveSource_NoFlagTest(fs, c, srcPath, recursive) ==
    LET failed(e) == [err |-> e, parentDir |-> NoNode, fileName |-> <<>>,
                      srcNode |-> NoNode]
        pp == validatePath(srcPath)
    IN IF pp.err # OK THEN failed(pp.err)
       ELSE LET st == startNode(fs, pp, c)
            IN IF st.err # OK THEN failed(st.err)
               ELSE LET w == sourceParts(fs, st.node, split(pp.rest))
                    IN IF w.err # OK THEN failed(w.err)
                       ELSE IF w.fileName # <<>>
                            THEN [err |-> OK, parentDir |-> w.node,
                                  fileName |-> w.fileName, srcNode |-> NoNode]
                            ELSE [err |-> OK, parentDir |-> NoNode,
                                  fileName |-> <<>>, srcNode |-> w.node]

\* FileSystemManager::resolveSource: [err, parentDir, fileName, srcNode].
resolveSource(fs, c, srcPath, recursive) ==
    LET failed(e) == [err |-> e, parentDir |-> NoNode, fileName |-> <<>>,
                      srcNode |-> NoNode]
        pp == validatePath(srcPath)
    IN IF pp.err # OK THEN failed(pp.err)
       ELSE LET st == startNode(fs, pp, c)
            IN IF st.err # OK THEN failed(st.err)
               ELSE LET w == sourceParts(fs, st.node, split(pp.rest))
                    IN IF w.err # OK THEN failed(w.err)
                       ELSE IF w.fileName # <<>> /\ recursive
                            THEN failed("InvalidOperationException(Cannot recursively copy/move a file)")
                       ELSE IF w.fileName = <<>> /\ ~recursive
                            THEN failed("InvalidOperationException(Cannot non-recursively copy/move a directory)")
                       ELSE IF w.fileName # <<>>
                            THEN [err |-> OK, parentDir |-> w.node,
                                  fileName |-> w.fileName, srcNode |-> NoNode]
                            ELSE [err |-> OK, parentDir |-> NoNode,
                                  fileName |-> <<>>, srcNode |-> w.node]

\* The loop of validateCopyOrMove: does the parent chain of current meet src?
RECURSIVE onParentChain(_, _, _)
onParentChain(fs, current, src) ==
    IF current = NoNode THEN FALSE
    ELSE IF current = src THEN TRUE
    ELSE onParentChain(fs, fs[current].parent, src)

\* A validation without the walk up the parent chain of the destination.
validateCopyOrMove_NoChain(fs, srcNode, dstNode) ==
    IF srcNode = dstNode
    THEN "InvalidOperationException(Cannot copy a directory into itself)"
    ELSE IF srcNode = Root
    THEN "InvalidOperationException(Cannot copy the root directory)"
    ELSE IF srcNode = NoNode \/ dstNode = NoNode THEN CRASH
    ELSE IF contains(fs, dstNode, fs[srcNode].name)
    THEN "InvalidOperationException(Destination already contains a directory/file with the same name)"
    ELSE OK

\* A validation that does not look for the source's name in the destination.
validateCopyOrMove_NoNameTest(fs, srcNode, dstNode) ==
    IF srcNode = dstNode
    THEN "InvalidOperationException(Cannot copy a directory into itself)"
    ELSE IF srcNode = Root
    THEN "InvalidOperationException(Cannot copy the root directory)"
    ELSE IF onParentChain(fs, dstNode, srcNode)
    THEN "InvalidOperationException(Cannot copy a directory into its own subdirectory)"
    ELSE IF srcNode = NoNode \/ dstNode = NoNode THEN CRASH
    ELSE OK

\* A validation that does not hold the source against the root.
validateCopyOrMove_NoRootTest(fs, srcNode, dstNode) ==
    IF srcNode = dstNode
    THEN "InvalidOperationException(Cannot copy a directory into itself)"
    ELSE IF onParentChain(fs, dstNode, srcNode)
    THEN "InvalidOperationException(Cannot copy a directory into its own subdirectory)"
    ELSE IF srcNode = NoNode \/ dstNode = NoNode THEN CRASH
    ELSE IF contains(fs, dstNode, fs[srcNode].name)
    THEN "InvalidOperationException(Destination already contains a directory/file with the same name)"
    ELSE OK

\* FileSystemManager::validateCopyOrMove: the error it throws, or OK.
validateCopyOrMove(fs, srcNode, dstNode) ==
    IF srcNode = dstNode
    THEN "InvalidOperationException(Cannot copy a directory into itself)"
    ELSE IF srcNode = Root
    THEN "InvalidOperationException(Cannot copy the root directory)"
    ELSE IF onParentChain(fs, dstNode, srcNode)
    THEN "InvalidOperationException(Cannot copy a directory into its own subdirectory)"
    ELSE IF srcNode = NoNode \/ dstNode = NoNode THEN CRASH
    ELSE IF contains(fs, dstNode, fs[srcNode].name)
    THEN "InvalidOperationException(Destination already contains a directory/file with the same name)"
    ELSE OK

\* ------------------------------------------------------------ Directory
\* A getSize that adds what every child reports for itself, a file's content
\* length included.
RECURSIVE getSize_EveryChildSize(_, _)
getSize_EveryChildSize(fs, d) ==
    LET RECURSIVE sum(_)
        sum(ks) == IF ks = <<>> THEN 0
                   ELSE LET n == fs[d].children[Head(ks)]
                        IN 1 + (IF isDirectory(fs, n)
                                THEN getSize_EveryChildSize(fs, n)
                                ELSE Len(fs[n].content))
                             + sum(Tail(ks))
    IN sum(keysOf(DOMAIN fs[d].children))

\* Directory::getSize: the number of descendants.
RECURSIVE getSize(_, _)
getSize(fs, d) ==
    LET RECURSIVE sum(_)
        sum(ks) == IF ks = <<>> THEN 0
                   ELSE LET n == fs[d].children[Head(ks)]
                        IN 1 + (IF isDirectory(fs, n) THEN getSize(fs, n) ELSE 0)
                             + sum(Tail(ks))
    IN sum(keysOf(DOMAIN fs[d].children))

\* The test of Directory::mkdir on the name.
invalidName(name) ==
    \/ name = <<>>
    \/ name[1] = DOT
    \/ \E i \in 1..Len(name) : name[i] = SLASH

\* A mkdir that looks for a child of that name before it tests the name.
Directory_mkdir_LookupFirst(fs, d, name) ==
    IF d = NoNode THEN [err |-> CRASH, fs |-> fs]
    ELSE IF contains(fs, d, name) THEN [err |-> "DirectoryAlreadyExists", fs |-> fs]
    ELSE IF invalidName(name) THEN [err |-> "InvalidNameException", fs |-> fs]
    ELSE IF FreeIds(fs) = {} THEN [err |-> BOUND, fs |-> fs]
    ELSE LET nd == alloc(fs)
             made == [fs EXCEPT ![nd] = [newDirectory(name) EXCEPT !.parent = d]]
         IN [err |-> OK, fs |-> setChild(made, d, name, nd)]

\* A mkdir that does not look for a child of that name.
Directory_mkdir_NoLookup(fs, d, name) ==
    IF invalidName(name) THEN [err |-> "InvalidNameException", fs |-> fs]
    ELSE IF d = NoNode THEN [err |-> CRASH, fs |-> fs]
    ELSE IF FreeIds(fs) = {} THEN [err |-> BOUND, fs |-> fs]
    ELSE LET nd == alloc(fs)
             made == [fs EXCEPT ![nd] = [newDirectory(name) EXCEPT !.parent = d]]
         IN [err |-> OK, fs |-> setChild(made, d, name, nd)]

\* Directory::mkdir on directory d: [err, fs].
Directory_mkdir(fs, d, name) ==
    IF invalidName(name) THEN [err |-> "InvalidNameException", fs |-> fs]
    ELSE IF d = NoNode THEN [err |-> CRASH, fs |-> fs]
    ELSE IF contains(fs, d, name) THEN [err |-> "DirectoryAlreadyExists", fs |-> fs]
    ELSE IF FreeIds(fs) = {} THEN [err |-> BOUND, fs |-> fs]
    ELSE LET nd == alloc(fs)
             made == [fs EXCEPT ![nd] = [newDirectory(name) EXCEPT !.parent = d]]
         IN [err |-> OK, fs |-> setChild(made, d, name, nd)]

\* An rmEmptyDir that does not ask for the size of the directory.
rmEmptyDir_NoSizeTest(fs, d, name) ==
    IF d = NoNode THEN [err |-> CRASH, fs |-> fs]
    ELSE IF ~contains(fs, d, name) THEN [err |-> "DirectoryDoesNotExist", fs |-> fs]
    ELSE IF ~isDirectory(fs, fs[d].children[name])
         THEN [err |-> "InvalidOperationException(Target is not a directory)", fs |-> fs]
    ELSE [err |-> OK, fs |-> removeChild(fs, d, name)]

\* Directory::rmEmptyDir
rmEmptyDir(fs, d, name) ==
    IF d = NoNode THEN [err |-> CRASH, fs |-> fs]
    ELSE IF ~contains(fs, d, name) THEN [err |-> "DirectoryDoesNotExist", fs |-> fs]
    ELSE IF ~isDirectory(fs, fs[d].children[name])
         THEN [err |-> "InvalidOperationException(Target is not a directory)", fs |-> fs]
    ELSE IF getSize(fs, fs[d].children[name]) > 0
         THEN [err |-> "DirectoryNotEmptyException", fs |-> fs]
    ELSE [err |-> OK, fs |-> removeChild(fs, d, name)]

\* Directory::rmEntireDir
rmEntireDir(fs, d, name) ==
    IF d = NoNode THEN [err |-> CRASH, fs |-> fs]
    ELSE IF ~contains(fs, d, name) THEN [err |-> "DirectoryDoesNotExist", fs |-> fs]
    ELSE IF ~isDirectory(fs, fs[d].children[name])
         THEN [err |-> "InvalidOperationException(Target is not a directory)", fs |-> fs]
    ELSE [err |-> OK, fs |-> removeChild(fs, d, name)]

\* An rmFile that does not test the kind of the child.
rmFile_NoKindTest(fs, d, name) ==
    IF d = NoNode THEN [err |-> CRASH, fs |-> fs]
    ELSE IF ~contains(fs, d, name) THEN [err |-> "FileDoesNotExist", fs |-> fs]
    ELSE [err |-> OK, fs |-> removeChild(fs, d, name)]

\* Directory::rmFile
rmFile(fs, d, name) ==
    IF d = NoNode THEN [err |-> CRASH, fs |-> fs]
    ELSE IF ~contains(fs, d, name) THEN [err |-> "FileDoesNotExist", fs |-> fs]
    ELSE IF isDirectory(fs, fs[d].children[name])
         THEN [err |-> "InvalidOperationException(Target is not a file)", fs |-> fs]
    ELSE [err |-> OK, fs |-> removeChild(fs, d, name)]

\* A createOrUpdateFile that empties a file it finds.
createOrUpdateFile_Truncate(fs, d, name) ==
    IF d = NoNode THEN [err |-> CRASH, fs |-> fs]
    ELSE IF contains(fs, d, name)
         THEN IF isDirectory(fs, fs[d].children[name])
              THEN [err |-> "InvalidOperationException(Directory with name already exists)",
                    fs |-> fs]
              ELSE [err |-> OK, fs |-> [fs EXCEPT ![fs[d].children[name]].content = <<>>]]
    ELSE IF FreeIds(fs) = {} THEN [err |-> BOUND, fs |-> fs]
    ELSE LET nf == alloc(fs)
             made == [fs EXCEPT ![nf] = [newFile(name, <<>>) EXCEPT !.parent = d]]
         IN [err |-> OK, fs |-> setChild(made, d, name, nf)]

\* Directory::createOrUpdateFile
createOrUpdateFile(fs, d, name) ==
    IF d = NoNode THEN [err |-> CRASH, fs |-> fs]
    ELSE IF contains(fs, d, name)
         THEN IF isDirectory(fs, fs[d].children[name])
              THEN [err |-> "InvalidOperationException(Directory with name already exists)",
                    fs |-> fs]
              ELSE [err |-> OK, fs |-> fs]
    ELSE IF FreeIds(fs) = {} THEN [err |-> BOUND, fs |-> fs]
    ELSE LET nf == alloc(fs)
             made == [fs EXCEPT ![nf] = [newFile(name, <<>>) EXCEPT !.parent = d]]
         IN [err |-> OK, fs |-> setChild(made, d, name, nf)]

\* Directory::getFullPath: the names up the parent chain, root first, each
\* non-empty one followed by '/', the last '/' dropped unless it is all.
RECURSIVE segmentsOf(_, _)
segmentsOf(fs, node) ==
    IF node = NoNode THEN <<>>
    ELSE segmentsOf(fs, fs[node].parent) \o <<fs[node].name>>

RECURSIVE joinSegments(_)
joinSegments(segs) ==
    IF segs = <<>> THEN <<>>
    ELSE (IF Head(segs) # <<>> THEN Head(segs) \o <<SLASH>> ELSE <<>>)
         \o joinSegments(Tail(segs))

getFullPath(fs, d) ==
    LET res == <<SLASH>> \o joinSegments(segmentsOf(fs, d))
    IN IF Len(res) > 1 THEN SubSeq(res, 1, Len(res) - 1) ELSE res

\* Directory::ls: one entry per key of the children map, in some order.
Directory_ls(fs, d) == keysOf(DOMAIN fs[d].children)

\* A write that never clears the content.
write_AlwaysAppend(fs, f, message, append) ==
    [fs EXCEPT ![f].content = @ \o message \o <<NL>>]

\* File::write
write(fs, f, message, append) ==
    [fs EXCEPT ![f].content = (IF append THEN @ ELSE <<>>) \o message \o <<NL>>]

\* ---------------------------------------------------- FileSystemManager
\* What a call that threw (or was killed) leaves: the error, the arena once
\* the call's local shared_ptrs are gone, and the cwd.
result(err, fs, c) ==
    [err |-> err, fs |-> release(fs, c), cwd |-> c, node |-> NoNode]

\* What a call that returned leaves; node is the object it made or acted on.
done(fs, c, node) ==
    [err |-> OK, fs |-> release(fs, c), cwd |-> c, node |-> node]

\* FileSystemManager::cd
cd(fs, c, path) ==
    LET r == navigateToDirectory(fs, path, c)
    IN IF r.err # OK THEN result(r.err, fs, c) ELSE done(fs, r.node, r.node)

\* FileSystemManager::mkdir
mkdir(fs, c, name) ==
    LET r == Directory_mkdir(fs, c, name)
    IN IF r.err # OK THEN result(r.err, r.fs, c)
       ELSE done(r.fs, c, r.fs[c].children[name])

\* FileSystemManager::rmdir
rmdir(fs, c, name, recursive) ==
    LET r == IF ~recursive THEN rmEmptyDir(fs, c, name) ELSE rmEntireDir(fs, c, name)
    IN IF r.err # OK THEN result(r.err, r.fs, c) ELSE done(r.fs, c, NoNode)

\* FileSystemManager::rm
rm(fs, c, name) ==
    LET r == rmFile(fs, c, name)
    IN IF r.err # OK THEN result(r.err, r.fs, c) ELSE done(r.fs, c, NoNode)

\* FileSystemManager::touch
touch(fs, c, name) ==
    LET r == createOrUpdateFile(fs, c, name)
    IN IF r.err # OK THEN result(r.err, r.fs, c)
       ELSE done(r.fs, c, r.fs[c].children[name])

\* A writeToFile that does not test the kind of the child it found.
writeToFile_NoKindTest(fs, c, fileName, message, append) ==
    IF c = NoNode THEN result(CRASH, fs, c)
    ELSE LET t == IF contains(fs, c, fileName) THEN [err |-> OK, fs |-> fs]
                  ELSE createOrUpdateFile(fs, c, fileName)
         IN IF t.err # OK THEN result(t.err, fs, c)
            ELSE done(write(t.fs, t.fs[c].children[fileName], message, append), c,
                      t.fs[c].children[fileName])

\* FileSystemManager::writeToFile
writeToFile(fs, c, fileName, message, append) ==
    IF c = NoNode THEN result(CRASH, fs, c)
    ELSE LET t == IF contains(fs, c, fileName) THEN [err |-> OK, fs |-> fs]
                  ELSE createOrUpdateFile(fs, c, fileName)
         IN IF t.err # OK THEN result(t.err, fs, c)
            ELSE IF isDirectory(t.fs, t.fs[c].children[fileName])
                 THEN result("InvalidPathException(is not a file)", t.fs, c)
            ELSE done(write(t.fs, t.fs[c].children[fileName], message, append), c,
                      t.fs[c].children[fileName])

\* FileSystemManager::readFile: [err, ret].
readFile(fs, c, fileName) ==
    IF c = NoNode THEN [err |-> CRASH, ret |-> <<>>]
    ELSE IF ~contains(fs, c, fileName) THEN [err |-> "FileDoesNotExist", ret |-> <<>>]
    ELSE IF isDirectory(fs, fs[c].children[fileName])
         THEN [err |-> "InvalidPathException(is not a file)", ret |-> <<>>]
    ELSE [err |-> OK, ret |-> fs[fs[c].children[fileName]].content]

\* FileSystemManager::pwd: [err, ret].
pwd(fs, c) ==
    IF c = NoNode THEN [err |-> CRASH, ret |-> <<>>]
    ELSE [err |-> OK, ret |-> getFullPath(fs, c)]

\* FileSystemManager::ls: [err, ret].
ls(fs, c, path) ==
    LET r == IF path # <<>> THEN navigateToDirectory(fs, path, c)
             ELSE [err |-> OK, node |-> c]
    IN IF r.err # OK THEN [err |-> r.err, ret |-> <<>>]
       ELSE IF r.node = NoNode THEN [err |-> CRASH, ret |-> <<>>]
       ELSE [err |-> OK, ret |-> Directory_ls(fs, r.node)]

\* The number of nodes copyDirectory makes for srcNode.
nodesToCopy(fs, srcNode) == 1 + getSize(fs, srcNode)

\* FileSystemManager::copyDirectory: the arena with the copy of srcNode's
\* subtree made under dstNode.
RECURSIVE copyDirectory(_, _, _)
copyDirectory(fs, srcNode, dstNode) ==
    LET newDir == alloc(fs)
        made == [fs EXCEPT ![newDir] =
                    [newDirectory(fs[srcNode].name) EXCEPT !.parent = dstNode]]
        linked == setChild(made, dstNode, fs[srcNode].name, newDir)
        RECURSIVE each(_, _)
        each(g, ks) ==
            IF ks = <<>> THEN g
            ELSE LET node == g[srcNode].children[Head(ks)]
                 IN IF isDirectory(g, node)
                    THEN each(copyDirectory(g, node, newDir), Tail(ks))
                    ELSE LET nf == alloc(g)
                             mf == [g EXCEPT ![nf] =
                                      [newFile(g[node].name, g[node].content)
                                          EXCEPT !.parent = newDir]]
                         IN each(setChild(mf, newDir, g[node].name, nf), Tail(ks))
    IN each(linked, keysOf(DOMAIN linked[srcNode].children))

\* The file branch of cp: a new File with the source's name and content is put
\* in dstNode's children under that name.
cpFile(fs, parentDir, fileName, dstNode) ==
    LET fileNode == fs[parentDir].children[fileName]
        nf == alloc(fs)
        made == [fs EXCEPT ![nf] = newFile(fs[fileNode].name, fs[fileNode].content)]
    IN setParent(setChild(made, dstNode, fs[fileNode].name, nf), nf, dstNode)

\* FileSystemManager::cp
cp(fs, c, srcPath, dstPath, recursive) ==
    LET s == resolveSource(fs, c, srcPath, recursive)
    IN IF s.err # OK THEN result(s.err, fs, c)
       ELSE LET d == resolveDestination(fs, c, dstPath)
       IN IF d.err # OK THEN result(d.err, fs, c)
          ELSE IF s.fileName # <<>>
          THEN IF FreeIds(fs) = {} THEN result(BOUND, fs, c)
               ELSE IF d.node = NoNode THEN result(CRASH, fs, c)
               ELSE done(cpFile(fs, s.parentDir, s.fileName, d.node), c, alloc(fs))
          ELSE LET v == validateCopyOrMove(fs, s.srcNode, d.node)
               IN IF v # OK THEN result(v, fs, c)
                  ELSE IF Cardinality(FreeIds(fs)) < nodesToCopy(fs, s.srcNode)
                       THEN result(BOUND, fs, c)
                  ELSE done(copyDirectory(fs, s.srcNode, d.node), c, alloc(fs))

\* A file move that leaves the file in parentDir's map.
mvFile_NoErase(fs, parentDir, fileName, dstNode) ==
    LET fileNode == fs[parentDir].children[fileName]
    IN setParent(setChild(fs, dstNode, fileName, fileNode), fileNode, dstNode)

\* The file branch of mv: the file leaves parentDir's map and is put in
\* dstNode's map under its name.
mvFile(fs, parentDir, fileName, dstNode) ==
    LET fileNode == fs[parentDir].children[fileName]
        erased == removeChild(fs, parentDir, fileName)
    IN setParent(setChild(erased, dstNode, fileName, fileNode), fileNode, dstNode)

\* A directory move that leaves the parent reference of the directory as it was.
mvDirectory_NoReparent(fs, srcNode, srcParentNode, dstNode) ==
    LET erased == removeChild(fs, srcParentNode, fs[srcNode].name)
    IN setChild(erased, dstNode, fs[srcNode].name, srcNode)

\* The directory branch of mv, after validation.
mvDirectory(fs, srcNode, srcParentNode, dstNode) ==
    LET erased == removeChild(fs, srcParentNode, fs[srcNode].name)
    IN setParent(setChild(erased, dstNode, fs[srcNode].name, srcNode), srcNode, dstNode)

\* A move that takes the directory out of its parent before it validates.
mv_EraseThenValidate(fs, c, srcPath, dstPath, recursive) ==
    LET s == resolveSource(fs, c, srcPath, recursive)
    IN IF s.err # OK THEN result(s.err, fs, c)
       ELSE LET d == resolveDestination(fs, c, dstPath)
       IN IF d.err # OK THEN result(d.err, fs, c)
          ELSE IF s.fileName # <<>>
          THEN IF d.node = NoNode THEN result(CRASH, fs, c)
               ELSE done(mvFile(fs, s.parentDir, s.fileName, d.node), c,
                         fs[s.parentDir].children[s.fileName])
          ELSE IF fs[s.srcNode].parent = NoNode THEN result(CRASH, fs, c)
          ELSE LET erased == removeChild(fs, fs[s.srcNode].parent, fs[s.srcNode].name)
                   v == validateCopyOrMove(fs, s.srcNode, d.node)
               IN IF v # OK THEN result(v, erased, c)
                  ELSE done(mvDirectory(fs, s.srcNode, fs[s.srcNode].parent, d.node),
                            c, s.srcNode)

\* FileSystemManager::mv
mv(fs, c, srcPath, dstPath, recursive) ==
    LET s == resolveSource(fs, c, srcPath, recursive)
    IN IF s.err # OK THEN result(s.err, fs, c)
       ELSE LET d == resolveDestination(fs, c, dstPath)
       IN IF d.err # OK THEN result(d.err, fs, c)
          ELSE IF s.fileName # <<>>
          THEN IF d.node = NoNode THEN result(CRASH, fs, c)
               ELSE done(mvFile(fs, s.parentDir, s.fileName, d.node), c,
                         fs[s.parentDir].children[s.fileName])
          ELSE LET v == validateCopyOrMove(fs, s.srcNode, d.node)
               IN IF v # OK THEN result(v, fs, c)
                  ELSE IF fs[s.srcNode].parent = NoNode THEN result(CRASH, fs, c)
                  ELSE done(mvDirectory(fs, s.srcNode, fs[s.srcNode].parent, d.node),
                            c, s.srcNode)

\* ------------------------------------------------------------ search
\* The character C++ reads at pattern[pattern.size()].
NUL == "\\0"

\* pattern[j], j 0-based.
charAt(str, j) == IF j < Len(str) THEN str[j + 1] ELSE NUL

\* The first loop of KMPSolver::solve: the prefix table, 0-based positions
\* kept at index + 1.
RECURSIVE buildLps(_, _, _, _)
buildLps(pattern, lps, i, j) ==
    IF i >= Len(pattern) THEN lps
    ELSE IF pattern[i + 1] = pattern[j + 1]
         THEN buildLps(pattern, [lps EXCEPT ![i + 1] = j + 1], i + 1, j + 1)
    ELSE IF j = 0 THEN buildLps(pattern, lps, i + 1, j)
    ELSE buildLps(pattern, lps, i, lps[j])

\* A scan that starts the pattern over on a mismatch instead of falling back
\* through the prefix table.
RECURSIVE scanText_RestartOnMismatch(_, _, _, _, _)
scanText_RestartOnMismatch(text, pattern, lps, i, j) ==
    IF i >= Len(text) THEN FALSE
    ELSE IF text[i + 1] = charAt(pattern, j)
         THEN IF j + 1 = Len(pattern) THEN TRUE
              ELSE scanText_RestartOnMismatch(text, pattern, lps, i + 1, j + 1)
    ELSE IF j = 0 THEN scanText_RestartOnMismatch(text, pattern, lps, i + 1, j)
    ELSE scanText_RestartOnMismatch(text, pattern, lps, i, 0)

\* The second loop of KMPSolver::solve.
RECURSIVE scanText(_, _, _, _, _)
scanText(text, pattern, lps, i, j) ==
    IF i >= Len(text) THEN FALSE
    ELSE IF text[i + 1] = charAt(pattern, j)
         THEN IF j + 1 = Len(pattern) THEN TRUE
              ELSE scanText(text, pattern, lps, i + 1, j + 1)
    ELSE IF j = 0 THEN scanText(text, pattern, lps, i + 1, j)
    ELSE scanText(text, pattern, lps, i, lps[j])

\* utility::KMPSolver::solve
solve(text, pattern) ==
    scanText(text, pattern,
             buildLps(pattern, [k \in 1..Len(pattern) |-> 0], 1, 0), 0, 0)

\* The second loop of KMPSolver::solve reads only what exists: pattern[j] for
\* j <= pattern.size() (the terminator included) and lps[j - 1] inside the
\* vector.  A read outside them is undefined behaviour.
RECURSIVE scanDefined(_, _, _, _, _)
scanDefined(text, pattern, lps, i, j) ==
    IF i >= Len(text) THEN TRUE
    ELSE IF j > Len(pattern) THEN FALSE
    ELSE IF text[i + 1] = charAt(pattern, j)
         THEN IF j + 1 = Len(pattern) THEN TRUE
              ELSE scanDefined(text, pattern, lps, i + 1, j + 1)
    ELSE IF j = 0 THEN scanDefined(text, pattern, lps, i + 1, j)
    ELSE IF j > Len(lps) THEN FALSE
    ELSE scanDefined(text, pattern, lps, i, lps[j])

\* KMPSolver::solve(text, pattern) has defined behaviour.
solveDefined(text, pattern) ==
    scanDefined(text, pattern,
                buildLps(pattern, [k \in 1..Len(pattern) |-> 0], 1, 0), 0, 0)

\* s1 + "/" + s2 + ... for the path vector of dfsAndGrep.
RECURSIVE joinPath(_)
joinPath(path) ==
    IF path = <<>> THEN <<>>
    ELSE IF Len(path) = 1 THEN path[1]
    ELSE path[1] \o <<SLASH>> \o joinPath(Tail(path))

\* A traversal that looks at the files of node and enters no directory.
dfsAndGrep_NoDescent(fs, node, pattern, path) ==
    LET here == Append(path, fs[node].name)
        RECURSIVE each(_)
        each(ks) ==
            IF ks = <<>> THEN <<>>
            ELSE LET child == fs[node].children[Head(ks)]
                 IN (IF ~isDirectory(fs, child) /\ solve(fs[child].content, pattern)
                     THEN <<joinPath(here) \o <<SLASH>> \o fs[child].name>>
                     ELSE <<>>)
                    \o each(Tail(ks))
    IN each(keysOf(DOMAIN fs[node].children))

\* FileSystemManager::dfsAndGrep: the entries appended to res.
RECURSIVE dfsAndGrep(_, _, _, _)
dfsAndGrep(fs, node, pattern, path) ==
    LET here == Append(path, fs[node].name)
        RECURSIVE each(_)
        each(ks) ==
            IF ks = <<>> THEN <<>>
            ELSE LET child == fs[node].children[Head(ks)]
                 IN (IF ~isDirectory(fs, child)
                     THEN IF solve(fs[child].content, pattern)
                          THEN <<joinPath(here) \o <<SLASH>> \o fs[child].name>>
                          ELSE <<>>
                     ELSE dfsAndGrep(fs, child, pattern, here))
                    \o each(Tail(ks))
    IN each(keysOf(DOMAIN fs[node].children))

\* A scan of the children that goes on into the directories among them.
RECURSIVE grepFlat_Descend(_, _, _, _)
grepFlat_Descend(fs, node, pattern, ks) ==
    IF ks = <<>> THEN <<>>
    ELSE LET child == fs[node].children[Head(ks)]
         IN (IF isDirectory(fs, child)
             THEN grepFlat_Descend(fs, child, pattern, keysOf(DOMAIN fs[child].children))
             ELSE IF solve(fs[child].content, pattern) THEN <<Head(ks)>> ELSE <<>>)
            \o grepFlat_Descend(fs, node, pattern, Tail(ks))

\* The non-recursive branch of grep.
RECURSIVE grepFlat(_, _, _, _)
grepFlat(fs, node, pattern, ks) ==
    IF ks = <<>> THEN <<>>
    ELSE LET child == fs[node].children[Head(ks)]
         IN (IF ~isDirectory(fs, child) /\ solve(fs[child].content, pattern)
             THEN <<Head(ks)>> ELSE <<>>)
            \o grepFlat(fs, node, pattern, Tail(ks))

\* A grep that throws when it has found nothing.
grep_ThrowsOnNothing(fs, c, path, pattern, recursive) ==
    LET r == navigateToDirectory(fs, path, c)
    IN IF r.err # OK THEN [err |-> r.err, some |-> FALSE, ret |-> <<>>]
       ELSE IF r.node = NoNode THEN [err |-> CRASH, some |-> FALSE, ret |-> <<>>]
       ELSE LET res == IF ~recursive
                       THEN grepFlat(fs, r.node, pattern,
                                     keysOf(DOMAIN fs[r.node].children))
                       ELSE dfsAndGrep(fs, r.node, pattern, <<>>)
            IN IF res = <<>> THEN [err |-> "FileDoesNotExist", some |-> FALSE, ret |-> <<>>]
               ELSE [err |-> OK, some |-> TRUE, ret |-> res]

\* FileSystemManager::grep: [err, some, ret]; some = FALSE is std::nullopt.
grep(fs, c, path, pattern, recursive) ==
    LET r == navigateToDirectory(fs, path, c)
    IN IF r.err # OK THEN [err |-> r.err, some |-> FALSE, ret |-> <<>>]
       ELSE IF r.node = NoNode THEN [err |-> CRASH, some |-> FALSE, ret |-> <<>>]
       ELSE LET res == IF ~recursive
                       THEN grepFlat(fs, r.node, pattern,
                                     keysOf(DOMAIN fs[r.node].children))
                       ELSE dfsAndGrep(fs, r.node, pattern, <<>>)
            IN [err |-> OK, some |-> res # <<>>, ret |-> res]

\* The files grep hands to KMPSolver::solve from node: the file children, and
\* with recursive = true the files below node.
searchedFiles(fs, node, recursive) ==
    { f \in (IF recursive THEN closure(fs, {node}, {})
                          ELSE Range(fs[node].children)) :
        fs[f].kind = "file" }

\* FileSystemManager::grep with the undefined reads of solve: what the call
\* can leave.  When a scan reads outside the pattern or the prefix table, the
\* call is killed by the access or the scan goes on and finds nothing.
grepOutcomes(fs, c, path, pattern, recursive) ==
    LET r == navigateToDirectory(fs, path, c)
    IN IF r.err # OK \/ r.node = NoNode
       THEN { grep(fs, c, path, pattern, recursive) }
       ELSE IF \A f \in searchedFiles(fs, r.node, recursive) :
                   solveDefined(fs[f].content, pattern)
       THEN { grep(fs, c, path, pattern, recursive) }
       ELSE { [err |-> CRASH, some |-> FALSE, ret |-> <<>>],
              [err |-> OK, some |-> FALSE, ret |-> <<>>] }

\* ------------------------------------------------------------ serialize
\* FileSystemManager::directoryToJson.  A default-constructed json is null and
\* becomes an object at the first j[name] = ...; a file is a string.
RECURSIVE directoryToJson(_, _)
directoryToJson(fs, node) ==
    IF DOMAIN fs[node].children = {} THEN [type |-> "null"]
    ELSE [type |-> "object",
          members |-> [name \in DOMAIN fs[node].children |->
                         LET child == fs[node].children[name]
                         IN IF isDirectory(fs, child)
                            THEN directoryToJson(fs, child)
                            ELSE [type |-> "string", value |-> fs[child].content]]]

\* FileSystemManager::convertToJson: [err, ret].
convertToJson(fs, c, path) ==
    LET r == navigateToDirectory(fs, path, c)
    IN IF r.err # OK THEN [err |-> r.err, ret |-> [type |-> "null"]]
       ELSE IF r.node = NoNode THEN [err |-> CRASH, ret |-> [type |-> "null"]]
       ELSE [err |-> OK, ret |-> directoryToJson(fs, r.node)]

\* ------------------------------------------- what the const members leave
\* std::unordered_map::operator[] as navigateToDirectory applies it to
\* node->children: the value under the key, and the arena with a null entry
\* put in under the key when there was none.
subscript(fs, d, name) ==
    IF name \in DOMAIN fs[d].children
    THEN [fs |-> fs, value |-> fs[d].children[name]]
    ELSE [fs |-> setChild(fs, d, name, NoNode), value |-> NoNode]

\* A descent that subscripts node->children before it has looked the part up.
RECURSIVE navigateParts_SubscriptFirst(_, _, _)
navigateParts_SubscriptFirst(fs, node, parts) ==
    IF parts = <<>> THEN fs
    ELSE IF node = NoNode THEN fs
    ELSE LET s == subscript(fs, node, Head(parts))
         IN IF s.value = NoNode THEN s.fs
            ELSE IF ~isDirectory(s.fs, s.value) THEN s.fs
            ELSE navigateParts_SubscriptFirst(s.fs, s.value, Tail(parts))

\* The arena after the descent of navigateToDirectory: find() and
\* isDirectory() read; children[s] is the one expression that can write.
RECURSIVE navigateParts_arena(_, _, _)
navigateParts_arena(fs, node, parts) ==
    IF parts = <<>> THEN fs
    ELSE IF node = NoNode THEN fs
    ELSE IF ~contains(fs, node, Head(parts)) THEN fs
    ELSE IF ~isDirectory(fs, fs[node].children[Head(parts)]) THEN fs
    ELSE LET s == subscript(fs, node, Head(parts))
         IN navigateParts_arena(s.fs, s.value, Tail(parts))

\* The arena after navigateToDirectory, returned or thrown.
navigateToDirectory_arena(fs, path, start) ==
    LET pp == validatePath(path)
    IN IF pp.err # OK THEN fs
       ELSE LET st == startNode(fs, pp, start)
            IN IF st.err # OK THEN fs
               ELSE navigateParts_arena(fs, st.node, split(pp.rest))

\* The arena after pwd: getFullPath reads names and parents.
pwd_arena(fs, c) == fs

\* The arena after ls: the navigation, then Directory::ls reads the keys.
ls_arena(fs, c, path) ==
    IF path # <<>> THEN navigateToDirectory_arena(fs, path, c) ELSE fs

\* The arena after readFile: find(), isDirectory() and File::read() read.
readFile_arena(fs, c, fileName) == fs

\* The arena after grep: the navigation, then loops over copies of the
\* children's entries.
grep_arena(fs, c, path, pattern, recursive) == navigateToDirectory_arena(fs, path, c)

\* The arena after convertToJson: the navigation, then directoryToJson reads.
convertToJson_arena(fs, c, path) == navigateToDirectory_arena(fs, path, c)

\* ------------------------------------------------------- slot renaming
\* No operation reads a slot number (an address): the children maps are keyed
\* by name and pointers are only compared for equality.  A state is therefore
\* stored with its slots renumbered in the order of a walk from the root (then
\* from a cwd the root does not reach), which identifies the states that differ
\* only in where the objects sit.
RECURSIVE walk(_, _)
walk(fs, n) ==
    LET RECURSIVE each(_)
        each(ks) == IF ks = <<>> THEN <<>>
                    ELSE walk(fs, fs[n].children[Head(ks)]) \o each(Tail(ks))
    IN <<n>> \o each(keysOf(DOMAIN fs[n].children))

RECURSIVE firsts(_, _)
firsts(seq, seen) ==
    IF seq = <<>> THEN <<>>
    ELSE IF Head(seq) \in seen THEN firsts(Tail(seq), seen)
    ELSE <<Head(seq)>> \o firsts(Tail(seq), seen \cup {Head(seq)})

slotOrder(fs, cw) ==
    firsts(walk(fs, Root) \o (IF cw = NoNode THEN <<>> ELSE walk(fs, cw)), {})

\* The new number of slot n.
renumber(ord, n) ==
    IF \A k \in 1..Len(ord) : ord[k] # n THEN NoNode
    ELSE (CHOOSE k \in 1..Len(ord) : ord[k] = n) - 1

renamed(fs, ord) ==
    [k \in Ids |->
       IF k + 1 > Len(ord) THEN FreeNode
       ELSE LET node == fs[ord[k + 1]]
            IN [node EXCEPT
                  !.parent = renumber(ord, @),
                  !.children = [nm \in DOMAIN @ |-> renumber(ord, @[nm])]]]

\* ------------------------------------------------------------ the machine
VARIABLES
    nodes,   \* the arena: slot -> node
    cwd,     \* FileSystemManager::cwd
    last     \* the last call of the host: its name, how it ended, and the
             \* object it made or acted on

vars == <<nodes, cwd, last>>

\* ------------------------------------------------------------ inputs
a == <<"a">>
b == <<"b">>
c == <<"c">>

\* Names given to mkdir and rmdir.
Names == {a, b}

\* Names given to touch, writeToFile, readFile and rm.
FileNames == {a}

Messages == {<<"h">>}

CdPaths == { <<SLASH>>, <<DOT, DOT>>, a, b, <<>> }

SrcPaths == { a, b, <<DOT>>, <<"a", SLASH, "b">>, <<SLASH, "a">> }

DstPaths == { <<SLASH>>, a, b, <<DOT, DOT>> }

\* ------------------------------------------------------------ actions
\* FileSystemManager::FileSystemManager
Init ==
    /\ nodes = [i \in Ids |-> IF i = Root THEN newDirectory(<<>>) ELSE FreeNode]
    /\ cwd = Root
    /\ last = [op |-> "new", err |-> OK, node |-> Root]

\* The process runs until a call is killed.
Running == last.err # CRASH

\* The objects of the arena, the root apart.
NodeCount(fs) == Cardinality(Ids \ FreeIds(fs)) - 1

\* A call that may change the file system: r is what it leaves.
Apply(op, r) ==
    /\ Running
    /\ r.err # BOUND
    /\ NodeCount(r.fs) <= MaxNodes
    /\ \A i \in Ids : Len(r.fs[i].content) <= MaxContent
    /\ IF r.fs = nodes /\ r.cwd = cwd
       THEN /\ UNCHANGED <<nodes, cwd>>
            /\ last' = [op |-> op, err |-> r.err, node |-> r.node]
       ELSE LET ord == slotOrder(r.fs, r.cwd)
            IN /\ nodes' = renamed(r.fs, ord)
               /\ cwd' = renumber(ord, r.cwd)
               /\ last' = [op |-> op, err |-> r.err, node |-> renumber(ord, r.node)]

\* A call of a const member function: e is how it ended and fs the arena it
\* leaves.
Query(op, e, fs) ==
    /\ Running
    /\ last' = [op |-> op, err |-> e, node |-> NoNode]
    /\ nodes' = fs
    /\ UNCHANGED cwd

Cd == \E p \in CdPaths : LET r == cd(nodes, cwd, p) IN Apply("cd", r)

Mkdir == \E n \in Names : LET r == mkdir(nodes, cwd, n) IN Apply("mkdir", r)

Rmdir == \E n \in Names, rec \in BOOLEAN :
            LET r == rmdir(nodes, cwd, n, rec) IN Apply("rmdir", r)

Rm == \E n \in FileNames : LET r == rm(nodes, cwd, n) IN Apply("rm", r)

Touch == \E n \in FileNames : LET r == touch(nodes, cwd, n) IN Apply("touch", r)

WriteToFile ==
    \E n \in FileNames, m \in Messages, ap \in BOOLEAN :
        LET r == writeToFile(nodes, cwd, n, m, ap) IN Apply("writeToFile", r)

ReadFile == \E n \in FileNames :
    Query("readFile", readFile(nodes, cwd, n).err, readFile_arena(nodes, cwd, n))

Pwd == Query("pwd", pwd(nodes, cwd).err, pwd_arena(nodes, cwd))

Ls == \E p \in {<<>>, a} : Query("ls", ls(nodes, cwd, p).err, ls_arena(nodes, cwd, p))

Cp == \E s \in SrcPaths, d \in DstPaths, rec \in BOOLEAN :
        LET r == cp(nodes, cwd, s, d, rec) IN Apply("cp", r)

Mv == \E s \in SrcPaths, d \in DstPaths, rec \in BOOLEAN :
        LET r == mv(nodes, cwd, s, d, rec) IN Apply("mv", r)

Grep == \E p \in {<<DOT>>, a}, pat \in Messages, rec \in BOOLEAN :
        Query("grep", grep(nodes, cwd, p, pat, rec).err,
              grep_arena(nodes, cwd, p, pat, rec))

ConvertToJson == \E p \in {<<SLASH>>, a} :
    Query("toJson", convertToJson(nodes, cwd, p).err, convertToJson_arena(nodes, cwd, p))

Next ==
    \/ Cd \/ Mkdir \/ Rmdir \/ Rm \/ Touch \/ WriteToFile \/ ReadFile
    \/ Pwd \/ Ls \/ Cp \/ Mv \/ Grep \/ ConvertToJson

Spec == Init /\ [][Next]_vars

\* ------------------------------------------------------------ vocabulary
\* The nodes the root reaches by child links.
Reach(fs) == closure(fs, {Root}, {})

\* n and everything below it, by child links.
Subtree(fs, n) == closure(fs, {n}, {})

\* The directories of the arena.
Dirs(fs) == {i \in Ids : fs[i].kind = "dir"}

\* The directories whose children map holds n.
Holders(fs, n) == {d \in Dirs(fs) : n \in Range(fs[d].children)}

\* A call failed: it threw one of the exceptions.
Failed(r) == r.err \notin {OK, CRASH, BOUND}

Unchanged(r) == r.fs = nodes /\ r.cwd = cwd

\* ------------------------------------------------------------ C1
\* C1: in every reachable state the current working directory is a directory
\* that the root reaches by child links.
C1_CwdReachableFromRoot ==
    /\ cwd # NoNode
    /\ cwd \in Reach(nodes)
    /\ isDirectory(nodes, cwd)

\* ------------------------------------------------------------ C2
\* Names the invariants give to the calls that take a name: the names of the
\* actions, and names Directory::mkdir refuses.
AnyNames == Names \cup FileNames \cup {<<>>, <<DOT, "a">>, <<"a", SLASH, "b">>}

\* C2: a call of cd, mkdir, rmdir, rm, touch, writeToFile, cp or mv that fails
\* leaves every node of the arena and the cwd as they were (readFile, grep
\* and convertToJson are const and return no file system at all).
C2_FailureChangesNothing ==
    /\ \A p \in CdPaths : LET r == cd(nodes, cwd, p) IN Failed(r) => Unchanged(r)
    /\ \A n \in AnyNames :
        /\ LET r == mkdir(nodes, cwd, n) IN Failed(r) => Unchanged(r)
        /\ \A rec \in BOOLEAN :
             LET r == rmdir(nodes, cwd, n, rec) IN Failed(r) => Unchanged(r)
        /\ LET r == rm(nodes, cwd, n) IN Failed(r) => Unchanged(r)
        /\ LET r == touch(nodes, cwd, n) IN Failed(r) => Unchanged(r)
        /\ \A m \in Messages, ap \in BOOLEAN :
             LET r == writeToFile(nodes, cwd, n, m, ap) IN Failed(r) => Unchanged(r)
    /\ \A s \in SrcPaths, d \in DstPaths, rec \in BOOLEAN :
        /\ LET r == cp(nodes, cwd, s, d, rec) IN Failed(r) => Unchanged(r)
        /\ LET r == mv(nodes, cwd, s, d, rec) IN Failed(r) => Unchanged(r)

\* A move was refused in a tree that holds a file and a directory.
C2_Witness ==
    /\ last.op = "mv"
    /\ last.err \in InvalidOperationErrors
    /\ \E i, j \in Ids : nodes[i].kind = "file" /\ nodes[j].kind = "dir" /\ j # Root

\* ------------------------------------------------------------ C3
\* The names under which directory d holds node n.
NamesOf(fs, d, n) == {nm \in DOMAIN fs[d].children : fs[d].children[nm] = n}

\* C3: the nodes the root reaches form a tree: each of them but the root is
\* in the children map of exactly one directory, under one name, and its
\* parent reference is that directory; the root is in no map; no directory
\* is below itself.
C3_ReachableNodesFormTree ==
    /\ Holders(nodes, Root) = {}
    /\ nodes[Root].parent = NoNode
    /\ \A n \in Reach(nodes) \ {Root} :
        /\ Cardinality(Holders(nodes, n)) = 1
        /\ \A d \in Holders(nodes, n) :
            /\ nodes[n].parent = d
            /\ d \in Reach(nodes)
            /\ NamesOf(nodes, d, n) = {nodes[n].name}
        /\ \A k \in Range(nodes[n].children) : n \notin Subtree(nodes, k)

\* A move has put a node two levels below the root.
C3_Witness ==
    /\ last.op = "mv"
    /\ last.err = OK
    /\ last.node \in Reach(nodes) \ {Root}
    /\ nodes[last.node].parent # Root

\* ------------------------------------------------------------ C4
\* Destinations given to cp and mv when the source is a directory.
SubtreeDstPaths ==
    DstPaths \cup { <<SLASH, "a", SLASH, "b">>, <<"a", SLASH, "b">>, <<DOT>> }

\* The call threw an InvalidOperationException and changed nothing.
Refused(r) == r.err \in InvalidOperationErrors /\ Unchanged(r)

\* C4: when the source resolves to a directory and the destination to that
\* directory or to one below it, mv and cp with recursive = true throw an
\* InvalidOperationException and change nothing.
C4_IntoOwnSubtreeRefused ==
    \A s \in SrcPaths, d \in SubtreeDstPaths :
        LET rs == resolveSource(nodes, cwd, s, TRUE)
            rd == resolveDestination(nodes, cwd, d)
        IN (/\ rs.err = OK
            /\ rd.err = OK
            /\ rs.srcNode # NoNode
            /\ rd.node \in Subtree(nodes, rs.srcNode))
           => /\ Refused(mv(nodes, cwd, s, d, TRUE))
              /\ Refused(cp(nodes, cwd, s, d, TRUE))

\* A directory was refused as the destination of its own ancestor.
C4_Witness ==
    /\ last.op \in {"cp", "mv"}
    /\ last.err = "InvalidOperationException(Cannot copy a directory into its own subdirectory)"
    /\ \E n \in Dirs(nodes) \cap Reach(nodes) : nodes[n].parent \notin {Root, NoNode}

\* ------------------------------------------------------------ C5
\* Sources given to cp and mv when the source is a file.
FileSrcPaths == SrcPaths \cup { <<"a", SLASH, "a">>, <<SLASH, "a", SLASH, "a">> }

\* C5: when the source resolves to a file and the destination directory has
\* a child with the file's name, cp and mv with recursive = false fail and
\* the destination keeps that child.
C5_FileCollisionRejected ==
    \A s \in FileSrcPaths, d \in SubtreeDstPaths :
        LET rs == resolveSource(nodes, cwd, s, FALSE)
            rd == resolveDestination(nodes, cwd, d)
        IN (/\ rs.err = OK
            /\ rd.err = OK
            /\ rd.node # NoNode
            /\ rs.fileName # <<>>
            /\ contains(nodes, rd.node, rs.fileName))
           => \A r \in {cp(nodes, cwd, s, d, FALSE), mv(nodes, cwd, s, d, FALSE)} :
                /\ Failed(r)
                /\ r.fs[rd.node] = nodes[rd.node]
                /\ r.fs[nodes[rd.node].children[rs.fileName]]
                     = nodes[nodes[rd.node].children[rs.fileName]]

\* ------------------------------------------------------------ C6
\* A host that only makes, removes and enters directories, over three names.
NavNames == {a, b, c}

DotPath == <<SLASH, "a", SLASH, DOT, SLASH, "b", SLASH, DOT, DOT, SLASH, "c">>

PlainPath == <<SLASH, "a", SLASH, "c">>

NavPaths == { <<SLASH>>, <<DOT, DOT>>, a, b, c, DotPath, PlainPath }

NavMkdir == \E n \in NavNames : LET r == mkdir(nodes, cwd, n) IN Apply("mkdir", r)

NavRmdir == \E n \in NavNames : LET r == rmdir(nodes, cwd, n, TRUE) IN Apply("rmdir", r)

NavCd == \E p \in NavPaths : LET r == cd(nodes, cwd, p) IN Apply("cd", r)

NavNext == NavMkdir \/ NavRmdir \/ NavCd

NavSpec == Init /\ [][NavNext]_vars

\* C6: where /a, /a/b and /a/c are directories, navigateToDirectory resolves
\* "/a/./b/../c" from every directory, and to the directory "/a/c" resolves to.
C6_DotSegmentsNormalized ==
    \A start \in Dirs(nodes) :
        LET ab == navigateToDirectory(nodes, <<SLASH, "a", SLASH, "b">>, start)
            ac == navigateToDirectory(nodes, PlainPath, start)
            r == navigateToDirectory(nodes, DotPath, start)
        IN (ab.err = OK /\ ac.err = OK) => (r.err = OK /\ r.node = ac.node)

\* ------------------------------------------------------------ C7
\* C7: after a mv of a file that returned, the directory the file was in no
\* longer has the name, the destination has the same file object under it
\* with the content it had, the cwd is the same and no other node differs.
C7_FileMoveRelocatesOnlyTheFile ==
    \A s \in FileSrcPaths, d \in SubtreeDstPaths :
        LET rs == resolveSource(nodes, cwd, s, FALSE)
            rd == resolveDestination(nodes, cwd, d)
            r == mv(nodes, cwd, s, d, FALSE)
        IN r.err = OK =>
            LET f == nodes[rs.parentDir].children[rs.fileName]
            IN /\ ~contains(r.fs, rs.parentDir, rs.fileName)
               /\ contains(r.fs, rd.node, rs.fileName)
               /\ r.fs[rd.node].children[rs.fileName] = f
               /\ r.fs[f].content = nodes[f].content
               /\ r.cwd = cwd
               /\ \A n \in Ids \ {rs.parentDir, rd.node, f} : r.fs[n] = nodes[n]

\* ------------------------------------------------------------ C8
\* Nodes m of fs and n of gs head subtrees with the same names, kinds and
\* file contents.
RECURSIVE SameShape(_, _, _, _)
SameShape(fs, m, gs, n) ==
    /\ fs[m].kind = gs[n].kind
    /\ fs[m].name = gs[n].name
    /\ fs[m].content = gs[n].content
    /\ DOMAIN fs[m].children = DOMAIN gs[n].children
    /\ \A nm \in DOMAIN fs[m].children :
          SameShape(fs, fs[m].children[nm], gs, gs[n].children[nm])

\* In r, node copy heads a copy of the subtree node src headed in the state:
\* made of new objects only, of the same shape, with the source left as it was
\* and where it was.
IndependentCopy(r, src, copy) ==
    /\ \A n \in Subtree(nodes, src) : r.fs[n] = nodes[n]
    /\ \A h \in Dirs(nodes) : NamesOf(r.fs, h, src) = NamesOf(nodes, h, src)
    /\ \A n \in Subtree(r.fs, copy) : nodes[n].kind = "free"
    /\ Subtree(r.fs, copy) \cap Subtree(r.fs, src) = {}
    /\ SameShape(nodes, src, r.fs, copy)

\* C8: after a cp that returned (of a file, or of a directory with
\* recursive = true) the destination holds, under the source's name, an
\* independent copy of the source; a write to the copy of a file leaves the
\* source's content as it was.
C8_CopyIsIndependent ==
    \A s \in FileSrcPaths, d \in SubtreeDstPaths, rec \in BOOLEAN :
        LET rs == resolveSource(nodes, cwd, s, rec)
            rd == resolveDestination(nodes, cwd, d)
            r == cp(nodes, cwd, s, d, rec)
        IN r.err = OK =>
            LET src == IF rec THEN rs.srcNode
                       ELSE nodes[rs.parentDir].children[rs.fileName]
                copy == r.fs[rd.node].children[nodes[src].name]
            IN /\ IndependentCopy(r, src, copy)
               /\ r.cwd = cwd
               /\ ~rec => \A m \in Messages, ap \in BOOLEAN :
                            write(r.fs, copy, m, ap)[src] = nodes[src]

\* ------------------------------------------------------------ C9
\* C9: after a mv of a directory that returned, the destination has the same
\* directory object under the source's name and no other directory has it;
\* the objects below it are as they were; the cwd is the same object, and
\* when it is in the moved subtree and the destination is reachable from the
\* root, pwd() is a path that leads from the root to it through the
\* destination.
C9_DirectoryMoveKeepsSubtree ==
    \A s \in SrcPaths, d \in SubtreeDstPaths :
        LET rs == resolveSource(nodes, cwd, s, TRUE)
            rd == resolveDestination(nodes, cwd, d)
            r == mv(nodes, cwd, s, d, TRUE)
        IN r.err = OK =>
            LET src == rs.srcNode
                dst == rd.node
            IN /\ contains(r.fs, dst, nodes[src].name)
               /\ r.fs[dst].children[nodes[src].name] = src
               /\ Holders(r.fs, src) = {dst}
               /\ r.fs[src] = [nodes[src] EXCEPT !.parent = dst]
               /\ \A n \in Subtree(nodes, src) \ {src} : r.fs[n] = nodes[n]
               /\ r.cwd = cwd
               /\ (cwd \in Subtree(nodes, src) /\ dst \in Reach(nodes)) =>
                    LET p == pwd(r.fs, r.cwd).ret
                        q == getFullPath(nodes, dst)
                    IN /\ navigateToDirectory(r.fs, p, Root) = [err |-> OK, node |-> cwd]
                       /\ Len(p) > Len(q)
                       /\ SubSeq(p, 1, Len(q)) = q

\* A directory that is not empty was moved with the cwd in it.
C9_Witness ==
    /\ last.op = "mv"
    /\ last.err = OK
    /\ last.node \in Reach(nodes)
    /\ isDirectory(nodes, last.node)
    /\ nodes[last.node].children # EmptyMap
    /\ cwd \in Subtree(nodes, last.node)

\* ------------------------------------------------------------ C10
\* The number of entries of the list that are n.
Count(list, n) == Cardinality({k \in 1..Len(list) : list[k] = n})

\* Names Directory::mkdir accepts.
ValidNames == {n \in AnyNames \cup {c, <<"a", "b">>} : ~invalidName(n)}

\* C10: with the cwd a directory object, mkdir of a valid name the cwd does
\* not have returns, ls() of the cwd then has the name exactly once and it
\* names an empty directory, and a second mkdir of the name throws
\* DirectoryAlreadyExists and changes nothing; mkdir of a valid name the cwd
\* has (a directory or a file) throws DirectoryAlreadyExists and changes
\* nothing.
C10_MkdirOnceThenAlreadyExists ==
    cwd # NoNode =>
    \A n \in ValidNames :
        LET r == mkdir(nodes, cwd, n)
        IN IF contains(nodes, cwd, n)
           THEN r.err = "DirectoryAlreadyExists" /\ Unchanged(r)
           ELSE /\ r.err = OK
                /\ r.cwd = cwd
                /\ Count(ls(r.fs, r.cwd, <<>>).ret, n) = 1
                /\ r.fs[r.fs[cwd].children[n]] =
                      [newDirectory(n) EXCEPT !.parent = cwd]
                /\ \A i \in Ids \ {cwd, r.fs[cwd].children[n]} : r.fs[i] = nodes[i]
                /\ LET again == mkdir(r.fs, r.cwd, n)
                   IN /\ again.err = "DirectoryAlreadyExists"
                      /\ again.fs = r.fs
                      /\ again.cwd = r.cwd

\* mkdir was refused in a cwd whose only child is a file: the name was the
\* file's.
C10_Witness ==
    /\ last.op = "mkdir"
    /\ last.err = "DirectoryAlreadyExists"
    /\ cwd # NoNode
    /\ \A n \in DOMAIN nodes[cwd].children : ~isDirectory(nodes, nodes[cwd].children[n])

\* ------------------------------------------------------------ C11
\* The empty name, a name that begins with '.', a name with a '/'.
BadNames == { <<>>, <<DOT, "a">>, <<"a", SLASH, "b">> }

\* A host that makes directories and files under good and bad names.
NameMkdir == \E n \in BadNames \cup {a} : LET r == mkdir(nodes, cwd, n) IN Apply("mkdir", r)

NameTouch == \E n \in BadNames \cup {a} : LET r == touch(nodes, cwd, n) IN Apply("touch", r)

NameCd == \E p \in {a, <<SLASH>>} : LET r == cd(nodes, cwd, p) IN Apply("cd", r)

NameNext == NameMkdir \/ NameTouch \/ NameCd

NameSpec == Init /\ [][NameNext]_vars

\* C11: mkdir of the empty name, of a name that begins with '.' or of a name
\* with a '/' throws InvalidNameException and changes nothing, also when the
\* cwd has a child of that name.
C11_MkdirRejectsBadNames ==
    \A n \in BadNames :
        LET r == mkdir(nodes, cwd, n)
        IN r.err = "InvalidNameException" /\ Unchanged(r)

\* mkdir was refused for the name in a cwd that has a child under each of
\* the bad names.
C11_Witness ==
    /\ last.op = "mkdir"
    /\ last.err = "InvalidNameException"
    /\ \A n \in BadNames : contains(nodes, cwd, n)

\* ------------------------------------------------------------ C12
\* C12: touch of the empty name, of a name that begins with '.' or of a name
\* with a '/' fails and changes nothing, and so does writeToFile of such a
\* name the cwd does not have.
C12_FileCreationRejectsBadNames ==
    \A n \in BadNames :
        /\ LET r == touch(nodes, cwd, n) IN Failed(r) /\ Unchanged(r)
        /\ ~contains(nodes, cwd, n) =>
             \A m \in Messages, ap \in BOOLEAN :
                LET r == writeToFile(nodes, cwd, n, m, ap)
                IN Failed(r) /\ Unchanged(r)

\* ------------------------------------------------------------ C13
\* Texts given to writeToFile by the invariants.
Texts == { <<>>, <<"h">>, <<"h", "i">> }

\* The cwd is a directory object and name is not a directory of it.
FileOrAbsent(name) ==
    /\ cwd # NoNode
    /\ contains(nodes, cwd, name) => ~isDirectory(nodes, nodes[cwd].children[name])

\* What the file called name in the cwd holds; nothing if there is none.
ContentOf(name) ==
    IF contains(nodes, cwd, name) THEN nodes[nodes[cwd].children[name]].content
    ELSE <<>>

\* C13: where f is a file of the cwd or absent from it, after
\* writeToFile(f, t, false) readFile(f) returns t and one '\n', whatever f
\* held; after a further writeToFile(f, u, true) it returns that followed by
\* u and one '\n'; and writeToFile(f, u, true) alone makes readFile(f) return
\* what f held followed by u and one '\n'.
C13_WriteThenRead ==
    \A f \in AnyNames, t \in Texts, u \in Texts :
        FileOrAbsent(f) =>
            LET w1 == writeToFile(nodes, cwd, f, t, FALSE)
                w2 == writeToFile(w1.fs, w1.cwd, f, u, TRUE)
                w3 == writeToFile(nodes, cwd, f, u, TRUE)
            IN /\ w1.err = OK
               /\ readFile(w1.fs, w1.cwd, f) = [err |-> OK, ret |-> t \o <<NL>>]
               /\ w2.err = OK
               /\ readFile(w2.fs, w2.cwd, f) =
                     [err |-> OK, ret |-> t \o <<NL>> \o u \o <<NL>>]
               /\ w3.err = OK
               /\ readFile(w3.fs, w3.cwd, f) =
                     [err |-> OK, ret |-> ContentOf(f) \o u \o <<NL>>]

\* A text was appended to a file that held a line.
C13_Witness ==
    /\ last.op = "writeToFile"
    /\ last.err = OK
    /\ last.node # NoNode
    /\ nodes[last.node].content = <<"h", NL, "h", NL>>

C15_WriteAndReadErrors ==
    cwd # NoNode =>
    \A n \in AnyNames :
        LET rd == readFile(nodes, cwd, n)
        IN /\ (contains(nodes, cwd, n) /\ isDirectory(nodes, nodes[cwd].children[n])) =>
                /\ rd.err = "InvalidPathException(is not a file)"
                /\ \A t \in Texts, ap \in BOOLEAN :
                      LET w == writeToFile(nodes, cwd, n, t, ap)
                      IN w.err = "InvalidPathException(is not a file)" /\ Unchanged(w)
           /\ ~contains(nodes, cwd, n) =>
                /\ rd.err = "FileDoesNotExist"
                /\ \A t \in Texts, ap \in BOOLEAN :
                      LET w == writeToFile(nodes, cwd, n, t, ap)
                      IN /\ w.err = OK
                         /\ w.cwd = cwd
                         /\ contains(w.fs, cwd, n)
                         /\ nodes[w.fs[cwd].children[n]].kind = "free"
                         /\ w.fs[w.fs[cwd].children[n]] =
                               [newFile(n, t \o <<NL>>) EXCEPT !.parent = cwd]
                         /\ \A i \in Ids \ {cwd, w.fs[cwd].children[n]} :
                               w.fs[i] = nodes[i]

\* writeToFile was refused: the name is a directory of the cwd.
C15_Witness ==
    /\ last.op = "writeToFile"
    /\ last.err = "InvalidPathException(is not a file)"
    /\ cwd # NoNode
    /\ \E n \in FileNames : contains(nodes, cwd, n) /\ isDirectory(nodes, nodes[cwd].children[n])

\* ------------------------------------------------------------ C16
\* In r the child called n has left the cwd, every object of its subtree is
\* gone, and every other object but the cwd is as it was.
RemovedFromCwd(r, n) ==
    LET child == nodes[cwd].children[n]
        gone == Subtree(nodes, child)
    IN /\ r.err = OK
       /\ r.cwd = cwd
       /\ r.fs[cwd] = [nodes[cwd] EXCEPT !.children = mapErase(@, n)]
       /\ \A i \in gone : r.fs[i] = FreeNode
       /\ \A i \in Ids \ (gone \cup {cwd}) : r.fs[i] = nodes[i]

C17_RmRemovesOnlyTheFile ==
    cwd # NoNode =>
    \A n \in AnyNames :
        LET r == rm(nodes, cwd, n)
        IN IF ~contains(nodes, cwd, n)
           THEN r.err = "FileDoesNotExist" /\ Unchanged(r)
           ELSE IF isDirectory(nodes, nodes[cwd].children[n])
           THEN /\ r.err = "InvalidOperationException(Target is not a file)"
                /\ Unchanged(r)
                /\ \A i \in Subtree(nodes, nodes[cwd].children[n]) : r.fs[i] = nodes[i]
           ELSE RemovedFromCwd(r, n)

\* rm was refused: the name is a directory of the cwd, which is not empty.
C17_Witness ==
    /\ last.op = "rm"
    /\ last.err = "InvalidOperationException(Target is not a file)"
    /\ cwd # NoNode
    /\ \E n \in FileNames :
         /\ contains(nodes, cwd, n)
         /\ nodes[nodes[cwd].children[n]].children # EmptyMap

\* ------------------------------------------------------------ C18
\* The sequences of at most n names out of S.
RECURSIVE SeqsUpTo(_, _)
SeqsUpTo(S, n) ==
    IF n = 0 THEN { <<>> }
    ELSE LET shorter == SeqsUpTo(S, n - 1)
         IN shorter \cup { Append(q, x) : q \in shorter, x \in S }

\* The names joined by '/'.
RECURSIVE JoinNames(_)
JoinNames(names) ==
    IF names = <<>> THEN <<>>
    ELSE IF Len(names) = 1 THEN names[1]
    ELSE names[1] \o <<SLASH>> \o JoinNames(Tail(names))

\* The path string of the names, from the root if anchored.
PathOf(anchored, names) ==
    (IF anchored THEN <<SLASH>> ELSE <<>>) \o JoinNames(names)

\* Where the names lead from start by child links: the directory, or which
\* of the two errors the first name that cannot be entered gives.
RECURSIVE Descend(_, _)
Descend(start, names) ==
    IF names = <<>> THEN [err |-> OK, node |-> start]
    ELSE IF Head(names) \notin DOMAIN nodes[start].children
    THEN [err |-> "DirectoryDoesNotExist", node |-> NoNode]
    ELSE IF nodes[nodes[start].children[Head(names)]].kind # "dir"
    THEN [err |-> "InvalidPathException(is not a directory)", node |-> NoNode]
    ELSE Descend(nodes[start].children[Head(names)], Tail(names))

\* C18: for a path of names, from the root or from the cwd, cd, ls, grep and
\* convertToJson throw DirectoryDoesNotExist when the first name that cannot
\* be entered is absent and InvalidPathException ("... is not a directory")
\* when it is a file, and return otherwise; a cd that throws changes nothing
\* and a cd that returns makes the cwd the directory the names lead to; ls
\* lists that directory.
C18_ResolutionErrors ==
    \A anchored \in BOOLEAN, names \in SeqsUpTo({a, b}, 3) :
        (IF anchored THEN TRUE ELSE names # <<>> /\ cwd # NoNode) =>
            LET p == PathOf(anchored, names)
                e == Descend(IF anchored THEN Root ELSE cwd, names)
                r == cd(nodes, cwd, p)
                l == ls(nodes, cwd, p)
            IN /\ r.err = e.err
               /\ IF e.err = OK THEN r.cwd = e.node ELSE Unchanged(r)
               /\ l.err = e.err
               /\ e.err = OK => l.ret = Directory_ls(nodes, e.node)
               /\ convertToJson(nodes, cwd, p).err = e.err
               /\ \A pat \in Messages, rec \in BOOLEAN :
                     grep(nodes, cwd, p, pat, rec).err = e.err

\* cd was refused because a name of the path is a file.
C18_Witness ==
    /\ last.op = "cd"
    /\ last.err = "InvalidPathException(is not a directory)"
    /\ cwd # NoNode
    /\ \E n \in {a, b} : contains(nodes, cwd, n) /\ ~isDirectory(nodes, nodes[cwd].children[n])

\* ------------------------------------------------------------ C19
\* Most parent hops the invariant puts in a path.
MaxHops == 4

\* The directories i child links below the root.
RECURSIVE Level(_)
Level(i) ==
    IF i = 0 THEN {Root}
    ELSE {k \in Ids : \E d \in Level(i - 1) : k \in Range(nodes[d].children)}

\* The depth of a node the root reaches.
DepthOf(n) == CHOOSE i \in 0..Cardinality(Ids) : n \in Level(i)

Max(x, y) == IF x >= y THEN x ELSE y

\* "../" k times.
RECURSIVE HopsSlash(_)
HopsSlash(k) == IF k = 0 THEN <<>> ELSE <<DOT, DOT, SLASH>> \o HopsSlash(k - 1)

\* The ways to write k parent hops and nothing else: ".", or "../" k times
\* with or without the last '/'.
HopPaths(k) ==
    IF k = 0 THEN { <<DOT>>, <<DOT, SLASH>> }
    ELSE { HopsSlash(k), HopsSlash(k - 1) \o <<DOT, DOT>> }

\* C19: from a cwd the root reaches at depth d, a path of k parent hops
\* resolves, in navigateToDirectory, resolveSource and resolveDestination, to
\* the directory at depth max(d - k, 0) that has the cwd below it, and never
\* fails; the hops followed by a name resolve as the name does from there;
\* after a leading '/' the hops are dropped: the path resolves as the rest
\* does from the root, whatever the cwd.
C19_ParentHopsStopAtRoot ==
    \A k \in 0..MaxHops :
        /\ (cwd # NoNode /\ cwd \in Reach(nodes)) =>
             \A p \in HopPaths(k) :
                LET r == navigateToDirectory(nodes, p, cwd)
                IN /\ r.err = OK
                   /\ r.node \in Reach(nodes)
                   /\ DepthOf(r.node) = Max(DepthOf(cwd) - k, 0)
                   /\ cwd \in Subtree(nodes, r.node)
                   /\ resolveDestination(nodes, cwd, p) = r
                   /\ LET s == resolveSource(nodes, cwd, p, TRUE)
                      IN s.err = OK /\ s.srcNode = r.node /\ s.fileName = <<>>
                   /\ \A names \in SeqsUpTo({a, b}, 2) \ { <<>> } :
                         navigateToDirectory(nodes, HopsSlash(k) \o JoinNames(names), cwd)
                           = Descend(r.node, names)
        /\ \A names \in SeqsUpTo({a, b}, 2) :
             LET e == Descend(Root, names)
                 p == <<SLASH>> \o HopsSlash(k) \o JoinNames(names)
             IN /\ navigateToDirectory(nodes, p, cwd) = e
                /\ e.err = OK =>
                     /\ resolveDestination(nodes, cwd, p) = e
                     /\ resolveSource(nodes, cwd, p, TRUE).srcNode = e.node
        /\ k > 0 =>
             navigateToDirectory(nodes, <<SLASH>> \o HopsSlash(k - 1) \o <<DOT, DOT>>, cwd)
               = [err |-> OK, node |-> Root]

\* cd has entered a directory two levels below the root: one hop leads to
\* its parent, two to the root, three no further.
C19_Witness ==
    /\ last.op = "cd"
    /\ last.err = OK
    /\ cwd # NoNode
    /\ cwd \in Reach(nodes)
    /\ DepthOf(cwd) = 2

\* ------------------------------------------------------------ C20
\* What the names lead to from start by child links: a directory, a file (as
\* the last name), or nothing.
RECURSIVE SourceKind(_, _)
SourceKind(start, names) ==
    IF names = <<>> THEN "dir"
    ELSE IF Head(names) \notin DOMAIN nodes[start].children THEN "none"
    ELSE LET child == nodes[start].children[Head(names)]
         IN IF nodes[child].kind = "file"
            THEN (IF Tail(names) = <<>> THEN "file" ELSE "none")
            ELSE SourceKind(child, Tail(names))

\* Destinations the source is held against: directories, a name that may be
\* missing, and the empty path.
AnyDstPaths == SubtreeDstPaths \cup { c, <<>> }

\* C20: for a source path of names, from the root or from the cwd, and for
\* the sources "." and "/": when the names lead to a file, cp and mv with
\* recursive = true throw InvalidOperationException ("Cannot recursively
\* copy/move a file"); when they lead to a directory, cp and mv with
\* recursive = false throw InvalidOperationException ("Cannot non-recursively
\* copy/move a directory"); whatever the destination, and nothing changes.
C20_RecursiveFlagMatchesKind ==
    \A anchored \in BOOLEAN, names \in SeqsUpTo({a, b}, 2) :
        (anchored \/ cwd # NoNode) =>
            LET p == IF names = <<>>
                     THEN (IF anchored THEN <<SLASH>> ELSE <<DOT>>)
                     ELSE PathOf(anchored, names)
                kind == SourceKind(IF anchored THEN Root ELSE cwd, names)
            IN \A d \in AnyDstPaths :
                 \A r \in { cp(nodes, cwd, p, d, kind = "file"),
                            mv(nodes, cwd, p, d, kind = "file") } :
                    /\ kind = "file" =>
                         /\ r.err = "InvalidOperationException(Cannot recursively copy/move a file)"
                         /\ Unchanged(r)
                    /\ kind = "dir" =>
                         /\ r.err = "InvalidOperationException(Cannot non-recursively copy/move a directory)"
                         /\ Unchanged(r)

\* A copy or move of a file with the recursive flag was refused.
C20_Witness ==
    /\ last.op \in {"cp", "mv"}
    /\ last.err = "InvalidOperationException(Cannot recursively copy/move a file)"
    /\ \E i \in Reach(nodes) : nodes[i].kind = "file"

\* ------------------------------------------------------------ C21
\* C21: when the source names lead to a directory and the destination
\* resolves to a directory that has a child, file or directory, with the
\* name of the source, cp and mv with recursive = true throw an
\* InvalidOperationException and change nothing: the child of the
\* destination and the subtree of the source stay as they are.  When the
\* root reaches the destination and the source is neither the destination,
\* nor the root, nor above the destination, the exception is "Destination
\* already contains a directory/file with the same name".
C21_DirectoryCollisionRejected ==
    \A anchored \in BOOLEAN, names \in SeqsUpTo({a, b}, 2) :
        (anchored \/ cwd # NoNode) =>
            LET p == IF names = <<>>
                     THEN (IF anchored THEN <<SLASH>> ELSE <<DOT>>)
                     ELSE PathOf(anchored, names)
                s == Descend(IF anchored THEN Root ELSE cwd, names)
            IN \A d \in SubtreeDstPaths :
                 LET rd == resolveDestination(nodes, cwd, d)
                 IN (/\ s.err = OK
                     /\ rd.err = OK
                     /\ rd.node # NoNode
                     /\ nodes[s.node].name \in DOMAIN nodes[rd.node].children)
                    => \A r \in { cp(nodes, cwd, p, d, TRUE), mv(nodes, cwd, p, d, TRUE) } :
                          /\ Refused(r)
                          /\ r.fs[rd.node].children[nodes[s.node].name]
                                = nodes[rd.node].children[nodes[s.node].name]
                          /\ (/\ s.node # rd.node
                              /\ s.node # Root
                              /\ rd.node \in Reach(nodes)
                              /\ rd.node \notin Subtree(nodes, s.node))
                             => r.err = "InvalidOperationException(Destination already contains a directory/file with the same name)"

\* A directory was refused by a destination that holds a file with its name.
C21_Witness ==
    /\ last.op \in {"cp", "mv"}
    /\ last.err = "InvalidOperationException(Destination already contains a directory/file with the same name)"
    /\ \E s \in Dirs(nodes) \cap Reach(nodes), f \in Reach(nodes) :
          /\ nodes[f].kind = "file"
          /\ nodes[f].name = nodes[s].name
          /\ nodes[s].children # EmptyMap

\* ------------------------------------------------------------ C22
\* What stops the names as a source, from start by child links: an absent
\* name, a file that is not the last name, or nothing.
RECURSIVE SourceError(_, _)
SourceError(start, names) ==
    IF names = <<>> THEN OK
    ELSE IF Head(names) \notin DOMAIN nodes[start].children
    THEN "InvalidPathException(part)"
    ELSE LET child == nodes[start].children[Head(names)]
         IN IF nodes[child].kind = "file"
            THEN (IF Tail(names) = <<>> THEN OK
                  ELSE "InvalidOperationException(File cannot contain a directory)")
            ELSE SourceError(child, Tail(names))

\* What stops the names as a destination: an absent name or a file.
DestinationError(start, names) ==
    LET e == Descend(start, names).err
    IN IF e = "DirectoryDoesNotExist" THEN "InvalidPathException(part)" ELSE e

\* The path string of the names; "." or "/" when there are none.
PathOrDot(anchored, names) ==
    IF names = <<>> THEN (IF anchored THEN <<SLASH>> ELSE <<DOT>>)
    ELSE PathOf(anchored, names)

\* C22: for source and destination paths of names, from the root or from the
\* cwd: when a name of the destination is absent or is a file, or a name of
\* the source is absent or a name of the source other than the last is a
\* file, cp and mv throw, with either flag, and nothing changes: no node is
\* made, removed or given another parent.  A source that does not resolve
\* gives InvalidPathException (absent) or InvalidOperationException ("File
\* cannot contain a directory"); a destination that does not resolve, under a
\* source that does and a flag that fits it, gives InvalidPathException.
C22_UnresolvedPathsChangeNothing ==
    \A sa \in BOOLEAN, sn \in SeqsUpTo({a, b}, 2),
       da \in BOOLEAN, dn \in SeqsUpTo({a}, 2) \cup {<<b>>}, rec \in BOOLEAN :
        ((sa /\ da) \/ cwd # NoNode) =>
            LET se == SourceError(IF sa THEN Root ELSE cwd, sn)
                de == DestinationError(IF da THEN Root ELSE cwd, dn)
                kind == SourceKind(IF sa THEN Root ELSE cwd, sn)
            IN (se # OK \/ de # OK) =>
                 \A r \in { cp(nodes, cwd, PathOrDot(sa, sn), PathOrDot(da, dn), rec),
                            mv(nodes, cwd, PathOrDot(sa, sn), PathOrDot(da, dn), rec) } :
                    /\ Failed(r)
                    /\ Unchanged(r)
                    /\ se # OK => r.err = se
                    /\ (se = OK /\ rec = (kind = "dir")) => r.err = de

\* A copy or move was refused for its destination, with a source in place.
C22_Witness ==
    /\ last.op \in {"cp", "mv"}
    /\ last.err \in { "InvalidPathException(part)",
                      "InvalidPathException(is not a directory)" }
    /\ cwd # NoNode
    /\ \E n \in {a, b} : n \in DOMAIN nodes[cwd].children

\* ------------------------------------------------------------ C23
\* pattern occurs in text as a run of consecutive characters.
Occurs(pattern, text) ==
    \E i \in 0..(Len(text) - Len(pattern)) :
        SubSeq(text, i + 1, i + Len(pattern)) = pattern

\* The patterns searched for: the non-empty ones of at most three characters
\* out of those a content can hold, and one character no content holds.
Patterns == (SeqsUpTo({"h", NL}, 3) \ { <<>> }) \cup { <<"i">> }

\* The entries of the list, as a set.
Entries(list) == { list[k] : k \in 1..Len(list) }

\* The files among the children of d whose content holds the pattern.
MatchingChildren(d, pattern) ==
    { n \in DOMAIN nodes[d].children :
        /\ nodes[nodes[d].children[n]].kind = "file"
        /\ Occurs(pattern, nodes[nodes[d].children[n]].content) }

\* C23: for a path that leads to a directory and a non-empty pattern, grep
\* with recursive = false returns, once each, the names of the files among
\* the children of that directory whose content holds the pattern, and
\* nothing else: no directory and no file of a directory below.
C23_FlatSearchReportsChildren ==
    \A anchored \in BOOLEAN, names \in SeqsUpTo({a, b}, 2), pat \in Patterns :
        (anchored \/ cwd # NoNode) =>
            LET e == Descend(IF anchored THEN Root ELSE cwd, names)
                g == grep(nodes, cwd, PathOrDot(anchored, names), pat, FALSE)
            IN e.err = OK =>
                 /\ g.err = OK
                 /\ Entries(g.ret) = MatchingChildren(e.node, pat)
                 /\ Len(g.ret) = Cardinality(MatchingChildren(e.node, pat))
                 /\ g.some = (MatchingChildren(e.node, pat) # {})

\* The cwd holds a file with "h" and a directory that holds a file with "h",
\* and a search of the cwd reports the first file only.
C23_Witness ==
    /\ last.op = "grep"
    /\ last.err = OK
    /\ cwd # NoNode
    /\ a \in DOMAIN nodes[cwd].children
    /\ b \in DOMAIN nodes[cwd].children
    /\ nodes[nodes[cwd].children[a]].kind = "file"
    /\ nodes[nodes[cwd].children[b]].kind = "dir"
    /\ MatchingChildren(nodes[cwd].children[b], <<"h">>) = {a}
    /\ grep(nodes, cwd, <<DOT>>, <<"h">>, FALSE).ret = <<a>>

\* ------------------------------------------------------------ C24
\* The files at or below d whose content holds the pattern.
MatchingFiles(d, pattern) ==
    { f \in Subtree(nodes, d) :
        nodes[f].kind = "file" /\ Occurs(pattern, nodes[f].content) }

\* The names on the way from d down to n, both ends included.
RECURSIVE NamesFrom(_, _)
NamesFrom(d, n) ==
    IF n = d \/ n = NoNode THEN <<nodes[d].name>>
    ELSE Append(NamesFrom(d, nodes[n].parent), nodes[n].name)

\* C24: for a path that leads to a directory and a non-empty pattern, grep
\* with recursive = true returns one entry for each file at or below that
\* directory whose content holds the pattern, the entry made of the names on
\* the way from the directory to the file, and no other entry: none for a
\* directory, none for a file without the pattern.
C24_RecursiveSearchReportsSubtree ==
    \A anchored \in BOOLEAN, names \in SeqsUpTo({a, b}, 2), pat \in Patterns :
        (anchored \/ cwd # NoNode) =>
            LET e == Descend(IF anchored THEN Root ELSE cwd, names)
                g == grep(nodes, cwd, PathOrDot(anchored, names), pat, TRUE)
                found == MatchingFiles(e.node, pat)
            IN e.err = OK =>
                 /\ g.err = OK
                 /\ Entries(g.ret) = { JoinNames(NamesFrom(e.node, f)) : f \in found }
                 /\ Len(g.ret) = Cardinality(found)
                 /\ g.some = (found # {})

\* A search of the cwd found a file of the cwd and a file of a directory of
\* the cwd, and passed over a file without the pattern.
C24_Witness ==
    /\ last.op = "grep"
    /\ last.err = OK
    /\ cwd # NoNode
    /\ Cardinality(MatchingFiles(cwd, <<"h", NL, "h">>)) = 1
    /\ Cardinality(MatchingFiles(cwd, <<"h">>)) = 2
    /\ \E f \in MatchingFiles(cwd, <<"h">>) : nodes[f].parent # cwd
    /\ Len(grep(nodes, cwd, <<DOT>>, <<"h">>, TRUE).ret) = 2

\* ------------------------------------------------------------ C25
\* The full path of n: '/' and the names from the root down to n, '/' between.
FullPathOf(n) == JoinNames(NamesFrom(Root, n))

\* C25: for a path that leads to a directory the root reaches and a
\* non-empty pattern, every entry grep returns with recursive = true begins
\* with '/' and is the full path of a file whose content holds the pattern,
\* whichever directory the search starts from.
C25_RecursiveEntriesAreFullPaths ==
    \A anchored \in BOOLEAN, names \in SeqsUpTo({a, b}, 2), pat \in Patterns :
        (anchored \/ cwd # NoNode) =>
            LET e == Descend(IF anchored THEN Root ELSE cwd, names)
                g == grep(nodes, cwd, PathOrDot(anchored, names), pat, TRUE)
            IN (e.err = OK /\ e.node \in Reach(nodes)) =>
                 /\ g.err = OK
                 /\ \A k \in 1..Len(g.ret) : Head(g.ret[k]) = SLASH
                 /\ Entries(g.ret) = { FullPathOf(f) : f \in MatchingFiles(e.node, pat) }

\* ------------------------------------------------------------ C26
\* C26: for a path of names and a non-empty pattern, in either mode: when
\* the path leads to a directory and no file in the scope of the search
\* holds the pattern, grep returns the empty optional and does not throw;
\* grep throws exactly when the path does not lead to a directory.
C26_NothingFoundIsNotAnError ==
    \A anchored \in BOOLEAN, names \in SeqsUpTo({a, b}, 2),
       pat \in Patterns, rec \in BOOLEAN :
        (anchored \/ cwd # NoNode) =>
            LET e == Descend(IF anchored THEN Root ELSE cwd, names)
                g == grep(nodes, cwd, PathOrDot(anchored, names), pat, rec)
            IN /\ (g.err # OK) = (e.err # OK)
               /\ e.err # OK => g.err = e.err /\ ~g.some
               /\ (/\ e.err = OK
                   /\ IF rec THEN MatchingFiles(e.node, pat) = {}
                      ELSE MatchingChildren(e.node, pat) = {})
                  => ~g.some /\ g.ret = <<>>

\* A search of a cwd that holds files, none with "h", ended without an error.
C26_Witness ==
    /\ last.op = "grep"
    /\ last.err = OK
    /\ cwd # NoNode
    /\ \E f \in Subtree(nodes, cwd) : nodes[f].kind = "file"
    /\ MatchingFiles(cwd, <<"h">>) = {}
    /\ ~grep(nodes, cwd, <<DOT>>, <<"h">>, TRUE).some
    /\ ~grep(nodes, cwd, <<DOT>>, <<"h">>, FALSE).some

\* ------------------------------------------------------------ C27
\* The nested mapping of directory d: a mapping from each child's name to the
\* mapping of a directory child or the content string of a file child.
RECURSIVE Mapping(_)
Mapping(d) ==
    [type |-> "object",
     members |-> [name \in DOMAIN nodes[d].children |->
                    LET child == nodes[d].children[name]
                    IN IF nodes[child].kind = "dir" THEN Mapping(child)
                       ELSE [type |-> "string", value |-> nodes[child].content]]]

\* C27: for a path that leads to a directory, convertToJson returns the
\* nested mapping of that directory: a mapping from child name to the
\* child's form for every directory, the empty mapping for an empty
\* directory, and the content string for every file.
C27_SerializeIsNestedMapping ==
    \A anchored \in BOOLEAN, names \in SeqsUpTo({a, b}, 2) :
        (anchored \/ cwd # NoNode) =>
            LET e == Descend(IF anchored THEN Root ELSE cwd, names)
                j == convertToJson(nodes, cwd, PathOrDot(anchored, names))
            IN e.err = OK => j.err = OK /\ j.ret = Mapping(e.node)

\* ------------------------------------------------------------ C28
\* The calls that only ask.
Queries == { "pwd", "ls", "readFile", "grep", "toJson" }

\* Paths given to ls, grep and convertToJson.
QueryPaths ==
    { PathOf(anchored, names) : anchored \in BOOLEAN, names \in SeqsUpTo({a, b}, 2) }
        \cup { <<DOT>>, <<DOT, DOT>>, <<DOT, DOT, SLASH, "a">> }

\* C28: pwd, ls, readFile, grep and convertToJson, returning or throwing,
\* leave every children map, every content, every parent reference and the
\* cwd as they were: in every reachable state each of them, on any path,
\* name and pattern, leaves the arena it found, and every step of the
\* machine that is one of these calls changes neither the arena nor the cwd.
C28_QueriesChangeNothing ==
    /\ [](/\ pwd_arena(nodes, cwd) = nodes
          /\ \A n \in AnyNames : readFile_arena(nodes, cwd, n) = nodes
          /\ \A p \in QueryPaths :
                /\ ls_arena(nodes, cwd, p) = nodes
                /\ convertToJson_arena(nodes, cwd, p) = nodes
                /\ \A pat \in Patterns \cup { <<>> }, rec \in BOOLEAN :
                      grep_arena(nodes, cwd, p, pat, rec) = nodes)
    /\ [][last'.op \in Queries => (nodes' = nodes /\ cwd' = cwd)]_vars

\* A query was refused in a tree that has a directory with a file in it.
C28_Witness ==
    /\ last.op \in Queries
    /\ last.err \notin {OK, CRASH}
    /\ \E f \in Reach(nodes) :
          /\ nodes[f].kind = "file"
          /\ nodes[f].parent # Root
          /\ nodes[f].content # <<>>

\* ------------------------------------------------------------ C29
\* C29: in every reachable state pwd() returns a string that begins with
\* '/'; it is "/" when the cwd is the root, and otherwise '/' and the names
\* of the directories that lead from the root down to the cwd, '/' between
\* them and none at the end; and cd(pwd()) makes the cwd what it was.
C29_PwdIsPathFromRoot ==
    /\ cwd # NoNode
    /\ LET p == pwd(nodes, cwd)
           back == cd(nodes, cwd, p.ret)
       IN /\ p.err = OK
          /\ Head(p.ret) = SLASH
          /\ cwd = Root => p.ret = <<SLASH>>
          /\ cwd # Root =>
                \E names \in SeqsUpTo({a, b}, MaxNodes) \ { <<>> } :
                    /\ Descend(Root, names) = [err |-> OK, node |-> cwd]
                    /\ p.ret = <<SLASH>> \o JoinNames(names)
          /\ back.err = OK
          /\ back.cwd = cwd

\* ------------------------------------------------------------ C30
\* Source paths that lead to the root.
RootSources ==
    { <<SLASH>>, <<SLASH, DOT, DOT>> }
        \cup (IF cwd = Root THEN { <<DOT>>, <<DOT, DOT>> } ELSE {})
        \cup (IF cwd # NoNode /\ cwd # Root /\ nodes[cwd].parent = Root
              THEN { <<DOT, DOT>> } ELSE {})

MaxPathLen == 6

\* The path strings: '.', '/' and a letter, in every order.
PathStrings == SeqsUpTo({DOT, SLASH, "a"}, MaxPathLen)

\* A host that hands one path string to validatePath.
PathInit ==
    /\ nodes = [i \in Ids |-> IF i = Root THEN newDirectory(<<>>) ELSE FreeNode]
    /\ cwd = Root
    /\ \E p \in PathStrings : last = [op |-> "path", path |-> p]

PathValidate ==
    /\ last.op = "path"
    /\ last' = [op |-> "validatePath", path |-> last.path, out |-> validatePath(last.path)]
    /\ UNCHANGED <<nodes, cwd>>

PathNext == PathValidate

PathSpec == PathInit /\ [][PathNext]_vars

\* Where the segment that begins after position pos ends: at the next '/',
\* or at the end of the string.
RECURSIVE SegmentEnd(_, _)
SegmentEnd(path, pos) ==
    IF pos >= Len(path) \/ path[pos + 1] = SLASH THEN pos
    ELSE SegmentEnd(path, pos + 1)

\* The prefix of a path by its segments: from position pos on, every segment
\* "." is dropped and every segment ".." is dropped and counted, up to the
\* first segment that is neither; the remainder begins there.
RECURSIVE LeadingTokens(_, _, _)
LeadingTokens(path, pos, hops) ==
    IF pos >= Len(path) THEN [hops |-> hops, remainder |-> <<>>]
    ELSE LET end == SegmentEnd(path, pos)
             segment == SubSeq(path, pos + 1, end)
             after == IF end < Len(path) THEN end + 1 ELSE end
         IN IF segment = <<DOT>> THEN LeadingTokens(path, after, hops)
            ELSE IF segment = <<DOT, DOT>> THEN LeadingTokens(path, after, hops + 1)
            ELSE [hops |-> hops, remainder |-> SubSeq(path, pos + 1, Len(path))]

\* What the claim says validatePath gives for a path.
PrefixOf(path) ==
    LET anchored == path[1] = SLASH
        t == LeadingTokens(path, IF anchored THEN 1 ELSE 0, 0)
    IN [err |-> OK, type |-> IF anchored THEN ROOT ELSE CURRENT,
        ups |-> t.hops, rest |-> t.remainder]

\* C31: validatePath throws InvalidPathException for the empty string; for
\* any other path the type is ROOT exactly when the path begins with '/',
\* ups is the number of leading ".." segments, the leading "." segments are
\* dropped, and rest is what is left from the first segment that is neither
\* "." nor ".."; ".././../../file.txt" gives CURRENT, 3 and "file.txt", and
\* "..foo" gives CURRENT, 0 and "..foo".
C31_ValidatePathPrefix ==
    /\ last.op = "validatePath" =>
          IF last.path = <<>>
          THEN last.out.err = "InvalidPathException(Path cannot be empty)"
          ELSE last.out = PrefixOf(last.path)
    /\ validatePath(<<".", ".", "/", ".", "/", ".", ".", "/", ".", ".", "/",
                      "f", "i", "l", "e", ".", "t", "x", "t">>)
          = [err |-> OK, type |-> CURRENT, ups |-> 3,
             rest |-> <<"f", "i", "l", "e", ".", "t", "x", "t">>]
    /\ validatePath(<<".", ".", "f", "o", "o">>)
          = [err |-> OK, type |-> CURRENT, ups |-> 0,
             rest |-> <<".", ".", "f", "o", "o">>]

\* validatePath was given "./../a".
C31_Witness ==
    /\ last.op = "validatePath"
    /\ last.path = <<DOT, SLASH, DOT, DOT, SLASH, "a">>
    /\ last.out = [err |-> OK, type |-> CURRENT, ups |-> 1, rest |-> <<"a">>]

\* ------------------------------------------------------------ C32
\* The longest text and the longest pattern given to KMPSolver::solve.
MaxText == 6
MaxPattern == 4

KmpTexts == SeqsUpTo({"a", "b"}, MaxText)

KmpPatterns == SeqsUpTo({"a", "b"}, MaxPattern) \ { <<>> }

\* A host that hands one text and one non-empty pattern to KMPSolver::solve.
KmpInit ==
    /\ nodes = [i \in Ids |-> IF i = Root THEN newDirectory(<<>>) ELSE FreeNode]
    /\ cwd = Root
    /\ \E t \in KmpTexts, p \in KmpPatterns :
          last = [op |-> "kmp", text |-> t, pattern |-> p]

KmpSolve ==
    /\ last.op = "kmp"
    /\ last' = [op |-> "solve", text |-> last.text, pattern |-> last.pattern,
                out |-> solve(last.text, last.pattern)]
    /\ UNCHANGED <<nodes, cwd>>

KmpNext == KmpSolve

KmpSpec == KmpInit /\ [][KmpNext]_vars

\* C32: for every text and every non-empty pattern, KMPSolver::solve returns
\* true exactly when the pattern occurs in the text as a run of consecutive
\* characters; a pattern longer than the text never does.
C32_SolveIsSubstringTest ==
    last.op = "solve" =>
        /\ last.out = Occurs(last.pattern, last.text)
        /\ Len(last.pattern) > Len(last.text) => ~last.out

\* "aab" was found in "aaab": the scan went back through the prefix table.
C32_Witness ==
    /\ last.op = "solve"
    /\ last.text = <<"a", "a", "a", "b">>
    /\ last.pattern = <<"a", "a", "b">>
    /\ last.out


\* ------------------------------------------------------------ C33
\* The sum of getSize over the directories of S.
RECURSIVE SumSizes(_, _)
SumSizes(fs, S) ==
    IF S = {} THEN 0
    ELSE LET n == CHOOSE x \in S : TRUE
         IN getSize(fs, n) + SumSizes(fs, S \ {n})

\* The children of d that are directories.
DirectoryChildren(fs, d) == {n \in Range(fs[d].children) : isDirectory(fs, n)}

RECURSIVE parentAfter(_, _, _)
parentAfter(fs, n, k) ==
    IF k = 0 \/ n = NoNode THEN n ELSE parentAfter(fs, fs[n].parent, k - 1)

\* The walk of getFullPath, of the parent hops and of validateCopyOrMove from
\* n has ended after as many steps as the arena has slots: no node is its own
\* ancestor.
WalkEnds(fs, n) == parentAfter(fs, n, Cardinality(Ids)) = NoNode

\* The walk from n visits the root.
WalkReachesRoot(fs, n) == \E k \in 0..Cardinality(Ids) : parentAfter(fs, n, k) = Root

\* cp(s, d, true) of a directory that returns has made one node per node of
\* the source subtree, all of them below the new directory and none of them
\* in the source subtree, which is as it was.
CopyMakesOneNodePerSourceNode ==
    \A s \in SrcPaths, d \in DstPaths :
        LET rs == resolveSource(nodes, cwd, s, TRUE)
            r == cp(nodes, cwd, s, d, TRUE)
        IN (rs.err = OK /\ rs.fileName = <<>> /\ r.err = OK) =>
            LET src == Subtree(nodes, rs.srcNode)
                new == FreeIds(nodes) \ FreeIds(r.fs)
            IN /\ Cardinality(new) = Cardinality(src)
               /\ FreeIds(r.fs) \subseteq FreeIds(nodes)
               /\ Subtree(r.fs, r.node) = new
               /\ Subtree(r.fs, rs.srcNode) = src
               /\ \A i \in src : r.fs[i] = nodes[i]

\* Every walk up the parent references, from any live object, ends.
AncestorWalksEnd == \A n \in Owned(nodes, cwd) : WalkEnds(nodes, n)

\* Every walk up the parent references, from any live object, visits the root.
AncestorWalksReachRoot == \A n \in Owned(nodes, cwd) : WalkReachesRoot(nodes, n)

\* C34: every operation terminates: a recursive directory copy makes one new
\* node per node of the source subtree and does not descend into what it is
\* making, and every walk up the parent references reaches the root after
\* finitely many steps.
C34_OperationsTerminate ==
    /\ CopyMakesOneNodePerSourceNode
    /\ AncestorWalksEnd
    /\ AncestorWalksReachRoot

\* A directory that holds a node can be copied.
C34_CopyCase ==
    \E s \in SrcPaths, d \in DstPaths :
        LET rs == resolveSource(nodes, cwd, s, TRUE)
        IN /\ rs.err = OK /\ rs.fileName = <<>>
           /\ cp(nodes, cwd, s, d, TRUE).err = OK
           /\ getSize(nodes, rs.srcNode) >= 1

\* ------------------------------------------------------------ C35
\* Longest message written to a file of the searched tree.
MaxMessage == 2

\* The messages: any characters of a std::string, '\0' among them.
SearchMessages == SeqsUpTo({"h", NUL}, MaxMessage)

\* The arena after touch a, writeToFile(a, m1), mkdir b, and in b touch a and
\* writeToFile(a, m2): /a and /b/a hold m1 and m2, each with its newline.
SearchTree(m1, m2) ==
    LET fs0 == [i \in Ids |-> IF i = Root THEN newDirectory(<<>>) ELSE FreeNode]
        t1 == touch(fs0, Root, a)
        w1 == writeToFile(t1.fs, Root, a, m1, FALSE)
        d1 == mkdir(w1.fs, Root, b)
        t2 == touch(d1.fs, d1.node, a)
        w2 == writeToFile(t2.fs, d1.node, a, m2, FALSE)
    IN w2.fs

SearchPaths == { <<SLASH>>, <<DOT>>, b, <<SLASH, "b">>, <<DOT, DOT>>, a, c }

SearchPatterns == { <<>>, <<"h">> }

SearchInit ==
    /\ \E m1 \in SearchMessages, m2 \in SearchMessages : nodes = SearchTree(m1, m2)
    /\ cwd \in {Root, nodes[Root].children[b]}
    /\ last = [op |-> "new", err |-> OK, node |-> Root]

\* One call of grep on the tree.
Search ==
    /\ last.op = "new"
    /\ \E p \in SearchPaths, pat \in SearchPatterns, rec \in BOOLEAN :
        \E o \in grepOutcomes(nodes, cwd, p, pat, rec) :
            /\ last' = [op |-> "grep", err |-> o.err, node |-> NoNode,
                        path |-> p, pattern |-> pat, recursive |-> rec,
                        some |-> o.some, ret |-> o.ret]
            /\ nodes' = grep_arena(nodes, cwd, p, pat, rec)
            /\ UNCHANGED cwd

SearchNext == Search

SearchSpec == SearchInit /\ [][SearchNext]_vars

\* No file of the arena holds '\0'.
NoNulInContents ==
    \A f \in Ids : \A k \in 1..Len(nodes[f].content) : nodes[f].content[k] # NUL

\* The call was a grep with the empty pattern on a path that resolves.
EmptyPatternSearched ==
    /\ last.op = "grep"
    /\ last.pattern = <<>>
    /\ navigateToDirectory(nodes, last.path, cwd).err = OK

\* grep returned std::nullopt.
ResultAbsent == last.err = OK /\ ~last.some /\ last.ret = <<>>

\* C35: grep with the empty pattern, on any tree and any path that resolves,
\* recursive or not, returns no result: the empty pattern matches nothing.
C35_EmptyPatternFindsNothing == EmptyPatternSearched => ResultAbsent

\* The same, on trees whose files hold no '\0'.
EmptyPatternFindsNothingWithoutNul ==
    (EmptyPatternSearched /\ NoNulInContents) => ResultAbsent

\* The same, in the trees the machine reaches with the messages it writes.
EmptyPatternFindsNothingInSpec ==
    \A p \in QueryPaths, rec \in BOOLEAN :
        LET g == grep(nodes, cwd, p, <<>>, rec)
        IN g.err = OK => (~g.some /\ g.ret = <<>>)

\* An empty pattern was searched below the root in files that hold text.
C35_SearchCase ==
    /\ EmptyPatternSearched
    /\ last.recursive
    /\ last.path = <<SLASH>>
    /\ NoNulInContents
    /\ \E f \in Ids : nodes[f].kind = "file" /\ Len(nodes[f].content) >= 2
====
